---------------------------- MODULE Spec2Model ----------------------------
(***************************************************************************)
(* Observable containers and their synchronization bridges (jupyterlab     *)
(* realtime prototype).  Each subsystem of the repository is modelled by   *)
(* its own group of variables and its own specification; a specification   *)
(* leaves the variables of the other subsystems at their idle values.      *)
(*                                                                         *)
(*   gv_*  GoogleRealtimeVector whose mutators emit `changed` themselves   *)
(*   rs_*  GoogleRealtimeHandler.registerString + ObservableString         *)
(*   nb_*  RealtimeNotebookModel.registerCollaborative, two clients        *)
(*   rv_*  GoogleRealtimeHandler.registerVector, two clients               *)
(*   h_*   GoogleRealtimeHandler (ready, createString, createVector),      *)
(*         GoogleRealtimeString/Vector constructors, DocumentModel and     *)
(*         ChatboxContent.registerCollaborative                            *)
(*   ss_*  ShareString                                                     *)
(*   gd_*  GoogleRealtimeVector / GoogleRealtimeString (datastructures.ts) *)
(*   ov_*  ObservableVector                                                *)
(*   rc_*  RacerVector with its undo journal                               *)
(*   rm_*  RacerMap            om_*  ObservableMap over a racer model      *)
(*   rw_*  RacerVector of racervector.ts                                   *)
(*   lk_*  ObservableVector.link / unlink / dispose, child and parent      *)
(*   st_*  signal-only ObservableString                                    *)
(***************************************************************************)
EXTENDS Integers, Sequences, FiniteSets, TLC

VARIABLES
  \* GoogleRealtimeVector (mutators emit `changed`)
  gv_vec, gv_call, gv_submitted, gv_emitted, gv_event,
  \* registerString
  rs_text, rs_exists, rs_collabStr, rs_registered, rs_origin, rs_notified,
  rs_submitted,
  \* RealtimeNotebookModel
  nb_cells, nb_list, nb_queue, nb_len0, nb_userPushes, nb_pushes,
  \* registerVector
  rv_vec, rv_exists, rv_collabVec, rv_registered, rv_queue, rv_last, rv_clean,
  rv_calls,
  \* GoogleRealtimeHandler, DocumentModel, ChatboxContent
  h_creator, h_stage, h_ready, h_model, h_root, h_root0, h_reactions, h_jobs,
  h_calls, h_done, h_last, dm_text, dm_text0, dm_promise, cb_entries,
  cb_entries0, cb_promise,
  \* GoogleRealtimeVector / GoogleRealtimeString of datastructures.ts
  gd_vector, gd_string, gd_last,
  \* ObservableVector
  ov_items, ov_last,
  \* RacerVector
  rc_vec, rc_plain, rc_cmp, rc_calls, rc_last,
  \* RacerMap
  rm_data, rm_last,
  \* ObservableMap
  om_data, om_last,
  \* RacerVector of racervector.ts
  rw_vec, rw_last,
  \* ObservableVector linked to a parent
  lk_child, lk_parent, lk_last,
  \* signal-only ObservableString
  st_str, st_last,
  \* ShareString
  ss_state, ss_data, ss_issued, ss_submitted, ss_emitted

gvVars == <<gv_vec, gv_call, gv_submitted, gv_emitted, gv_event>>

rsVars == <<rs_text, rs_exists, rs_collabStr, rs_registered, rs_origin,
            rs_notified, rs_submitted>>

nbVars == <<nb_cells, nb_list, nb_queue, nb_len0, nb_userPushes, nb_pushes>>

rvVars == <<rv_vec, rv_exists, rv_collabVec, rv_registered, rv_queue, rv_last,
            rv_clean, rv_calls>>

hVars == <<h_creator, h_stage, h_ready, h_model, h_root, h_root0, h_reactions,
           h_jobs, h_calls, h_done, h_last, dm_text, dm_text0, dm_promise,
           cb_entries, cb_entries0, cb_promise>>

gdVars == <<gd_vector, gd_string, gd_last>>

ovVars == <<ov_items, ov_last>>

rcVars == <<rc_vec, rc_plain, rc_cmp, rc_calls, rc_last>>

rmVars == <<rm_data, rm_last>>

omVars == <<om_data, om_last>>

rwVars == <<rw_vec, rw_last>>

lkVars == <<lk_child, lk_parent, lk_last>>

stVars == <<st_str, st_last>>

ssVars == <<ss_state, ss_data, ss_issued, ss_submitted, ss_emitted>>

vars == <<gvVars, rsVars, nbVars, rvVars, hVars, ssVars, gdVars, ovVars, rcVars, rmVars, omVars, rwVars, lkVars, stVars>>

GvOthers == <<rsVars, nbVars, rvVars, hVars, ssVars, gdVars, ovVars, rcVars, rmVars, omVars, rwVars, lkVars, stVars>>

RsOthers == <<gvVars, nbVars, rvVars, hVars, ssVars, gdVars, ovVars, rcVars, rmVars, omVars, rwVars, lkVars, stVars>>

NbOthers == <<gvVars, rsVars, rvVars, hVars, ssVars, gdVars, ovVars, rcVars, rmVars, omVars, rwVars, lkVars, stVars>>

RvOthers == <<gvVars, rsVars, nbVars, hVars, ssVars, gdVars, ovVars, rcVars, rmVars, omVars, rwVars, lkVars, stVars>>

HOthers == <<gvVars, rsVars, nbVars, rvVars, ssVars, gdVars, ovVars, rcVars, rmVars, omVars, rwVars, lkVars, stVars>>

SsOthers == <<gvVars, rsVars, nbVars, rvVars, hVars, gdVars, ovVars, rcVars, rmVars, omVars, rwVars, lkVars, stVars>>

GdOthers == <<gvVars, rsVars, nbVars, rvVars, hVars, ssVars, ovVars, rcVars, rmVars, omVars, rwVars, lkVars, stVars>>

OvOthers == <<gvVars, rsVars, nbVars, rvVars, hVars, ssVars, gdVars, rcVars, rmVars, omVars, rwVars, lkVars, stVars>>

RcOthers == <<gvVars, rsVars, nbVars, rvVars, hVars, ssVars, gdVars, ovVars, rmVars, omVars, rwVars, lkVars, stVars>>

RmOthers == <<gvVars, rsVars, nbVars, rvVars, hVars, ssVars, gdVars, ovVars, rcVars, omVars, rwVars, lkVars, stVars>>

OmOthers == <<gvVars, rsVars, nbVars, rvVars, hVars, ssVars, gdVars, ovVars, rcVars, rmVars, rwVars, lkVars, stVars>>

RwOthers == <<gvVars, rsVars, nbVars, rvVars, hVars, ssVars, gdVars, ovVars, rcVars, rmVars, omVars, lkVars, stVars>>

LkOthers == <<gvVars, rsVars, nbVars, rvVars, hVars, ssVars, gdVars, ovVars, rcVars, rmVars, omVars, rwVars, stVars>>

StOthers == <<gvVars, rsVars, nbVars, rvVars, hVars, ssVars, gdVars, ovVars, rcVars, rmVars, omVars, rwVars, lkVars>>

(***************************************************************************)
(* Bounds of the model.                                                    *)
(***************************************************************************)
MaxLen == 3

MaxText == 3

MaxList == 4

MaxUserPushes == 2

MaxCalls == 3

MaxOps == 3

MaxRcLen == 2

MaxRcOps == 2

MaxLinkLen == 2

(***************************************************************************)
(* Values.  An element of type T is an object with a toJSON method; the    *)
(* remote store holds the JSON form, and the factory rebuilds an object.   *)
(***************************************************************************)
Texts == {"x", "y"}

Entry(t) == [cls |-> "Entry", text |-> t]

Entries == {Entry(t) : t \in Texts}

\* Entry.toJSON
toJSON(value) == [text |-> value.text]

JSONs == {toJSON(e) : e \in Entries}

\* the factory handed to the vector: (obj) => new Entry(obj)
factory(obj) == Entry(obj.text)

\* GoogleRealtimeVector._toJSONArray
toJSONArray(array) == [i \in 1..Len(array) |-> toJSON(array[i])]

\* GoogleRealtimeVector._fromJSONArray
fromJSONArray(array) == [i \in 1..Len(array) |-> factory(array[i])]

SeqsUpTo(S, n) == UNION {[1..k -> S] : k \in 0..n}

\* insert v so that it ends at 0-based index i
InsertAt(s, i, v) == SubSeq(s, 1, i) \o <<v>> \o SubSeq(s, i + 1, Len(s))

\* remove the element at 0-based index i
RemoveAt(s, i) == SubSeq(s, 1, i) \o SubSeq(s, i + 2, Len(s))

\* replace the element at 0-based index i
SetAt(s, i, v) == [s EXCEPT ![i + 1] = v]

(***************************************************************************)
(* GoogleRealtimeVector, the variant whose mutators emit `changed`.        *)
(* The remote list notifies its listeners of every change synchronously,   *)
(* the bridge's own writes included (isLocal = TRUE).                      *)
(*   gv_vec        contents of the CollaborativeList (_vec)                *)
(*   gv_call       the last operation: a local mutator, or "remote"        *)
(*   gv_submitted  operations the last call submitted to the remote list   *)
(*   gv_emitted    Change Events the listeners of `changed` received       *)
(*                 during the last operation                               *)
(*   gv_event      the event the remote list fired for the last operation  *)
(***************************************************************************)
\* listener of VALUES_ADDED
GvOnValuesAdded(evt) ==
  [type |-> "add", oldIndex |-> -1, newIndex |-> evt.index,
   oldValues |-> <<>>, newValues |-> fromJSONArray(evt.values)]

\* listener of VALUES_REMOVED
GvOnValuesRemoved(evt) ==
  [type |-> "remove", oldIndex |-> -1, newIndex |-> evt.index,
   oldValues |-> fromJSONArray(evt.values), newValues |-> <<>>]

\* listener of VALUES_SET
GvOnValuesSet(evt) ==
  [type |-> "set", oldIndex |-> evt.index, newIndex |-> evt.index,
   oldValues |-> fromJSONArray(evt.oldValues),
   newValues |-> fromJSONArray(evt.newValues)]

\* the Change Events the bridge's listeners emit for one remote event
GvListeners(evt) ==
  CASE evt.type = "VALUES_ADDED"   -> <<GvOnValuesAdded(evt)>>
    [] evt.type = "VALUES_REMOVED" -> <<GvOnValuesRemoved(evt)>>
    [] evt.type = "VALUES_SET"     -> <<GvOnValuesSet(evt)>>

GvNoEvent == [type |-> "none"]

GvInit ==
  /\ gv_vec \in SeqsUpTo(JSONs, 1)
  /\ gv_call = "none"
  /\ gv_submitted = <<>>
  /\ gv_emitted = <<>>
  /\ gv_event = GvNoEvent

GvOff ==
  /\ gv_vec = <<>>
  /\ gv_call = "none"
  /\ gv_submitted = <<>>
  /\ gv_emitted = <<>>
  /\ gv_event = GvNoEvent

\* set(index, value)
GvSet(index, value) ==
  /\ index \in 0..Len(gv_vec) - 1
  /\ LET oldValues == <<factory(gv_vec[index + 1])>>
         evt == [type |-> "VALUES_SET", index |-> index, isLocal |-> TRUE,
                 oldValues |-> <<gv_vec[index + 1]>>,
                 newValues |-> <<toJSON(value)>>]
     IN /\ gv_event' = evt
        /\ gv_vec' = SetAt(gv_vec, index, toJSON(value))
        /\ gv_submitted' = <<[op |-> "set", index |-> index, value |-> toJSON(value)]>>
        /\ gv_emitted' = GvListeners(evt) \o
             <<[type |-> "set", oldIndex |-> index, newIndex |-> index,
                oldValues |-> oldValues, newValues |-> <<value>>]>>
  /\ gv_call' = "set"

\* pushBack(value)
GvPushBack(value) ==
  /\ Len(gv_vec) < MaxLen
  /\ LET evt == [type |-> "VALUES_ADDED", index |-> Len(gv_vec), isLocal |-> TRUE,
                 values |-> <<toJSON(value)>>]
     IN /\ gv_event' = evt
        /\ gv_vec' = Append(gv_vec, toJSON(value))
        /\ gv_submitted' = <<[op |-> "push", value |-> toJSON(value)]>>
        /\ gv_emitted' = GvListeners(evt) \o
             <<[type |-> "add", oldIndex |-> -1, newIndex |-> Len(gv_vec') - 1,
                oldValues |-> <<>>, newValues |-> <<value>>]>>
  /\ gv_call' = "pushBack"

\* insert(index, value)
GvInsert(index, value) ==
  /\ Len(gv_vec) < MaxLen
  /\ index \in 0..Len(gv_vec)
  /\ LET evt == [type |-> "VALUES_ADDED", index |-> index, isLocal |-> TRUE,
                 values |-> <<toJSON(value)>>]
     IN /\ gv_event' = evt
        /\ gv_vec' = InsertAt(gv_vec, index, toJSON(value))
        /\ gv_submitted' = <<[op |-> "insert", index |-> index, value |-> toJSON(value)]>>
        /\ gv_emitted' = GvListeners(evt) \o
             <<[type |-> "add", oldIndex |-> -1, newIndex |-> index,
                oldValues |-> <<>>, newValues |-> <<value>>]>>
  /\ gv_call' = "insert"

\* removeAt(index)
GvRemoveAt(index) ==
  /\ index \in 0..Len(gv_vec) - 1
  /\ LET value == factory(gv_vec[index + 1])
         evt == [type |-> "VALUES_REMOVED", index |-> index, isLocal |-> TRUE,
                 values |-> <<gv_vec[index + 1]>>]
     IN /\ gv_event' = evt
        /\ gv_vec' = RemoveAt(gv_vec, index)
        /\ gv_submitted' = <<[op |-> "remove", index |-> index]>>
        /\ gv_emitted' = GvListeners(evt) \o
             <<[type |-> "remove", oldIndex |-> index, newIndex |-> -1,
                oldValues |-> <<value>>, newValues |-> <<>>]>>
  /\ gv_call' = "removeAt"

\* a collaborator inserts a value: the list fires VALUES_ADDED, isLocal FALSE
GvRemoteAdded(index, json) ==
  /\ Len(gv_vec) < MaxLen
  /\ index \in 0..Len(gv_vec)
  /\ LET evt == [type |-> "VALUES_ADDED", index |-> index, isLocal |-> FALSE,
                 values |-> <<json>>]
     IN /\ gv_event' = evt
        /\ gv_vec' = InsertAt(gv_vec, index, json)
        /\ gv_emitted' = GvListeners(evt)
  /\ gv_submitted' = <<>>
  /\ gv_call' = "remote"

\* a collaborator removes a value: the list fires VALUES_REMOVED, isLocal FALSE
GvRemoteRemoved(index) ==
  /\ index \in 0..Len(gv_vec) - 1
  /\ LET evt == [type |-> "VALUES_REMOVED", index |-> index, isLocal |-> FALSE,
                 values |-> <<gv_vec[index + 1]>>]
     IN /\ gv_event' = evt
        /\ gv_vec' = RemoveAt(gv_vec, index)
        /\ gv_emitted' = GvListeners(evt)
  /\ gv_submitted' = <<>>
  /\ gv_call' = "remote"

\* a collaborator replaces a value: the list fires VALUES_SET, isLocal FALSE
GvRemoteSet(index, json) ==
  /\ index \in 0..Len(gv_vec) - 1
  /\ LET evt == [type |-> "VALUES_SET", index |-> index, isLocal |-> FALSE,
                 oldValues |-> <<gv_vec[index + 1]>>, newValues |-> <<json>>]
     IN /\ gv_event' = evt
        /\ gv_vec' = SetAt(gv_vec, index, json)
        /\ gv_emitted' = GvListeners(evt)
  /\ gv_submitted' = <<>>
  /\ gv_call' = "remote"

(***************************************************************************)
(* GoogleRealtimeHandler.registerString with the signal-only               *)
(* ObservableString.  Text is a sequence of characters.                    *)
(*   rs_text        ObservableString._text of the registered string        *)
(*   rs_exists      whether the root holds an object under 'collabString'  *)
(*   rs_collabStr   text of the remote CollaborativeString                 *)
(*   rs_registered  whether the ready.then callback of registerString ran  *)
(*   rs_origin      origin of the last step                                *)
(*   rs_notified    emissions of str.changed during the last step          *)
(*   rs_submitted   operations submitted to the remote string in that step *)
(***************************************************************************)
Chars == {"a", "b"}

Strings == SeqsUpTo(Chars, MaxText)

RsInit ==
  /\ rs_text \in SeqsUpTo(Chars, 1)
  /\ rs_exists \in BOOLEAN
  /\ rs_collabStr \in (IF rs_exists THEN SeqsUpTo(Chars, 1) ELSE {<<>>})
  /\ rs_registered = FALSE
  /\ rs_origin = "none"
  /\ rs_notified = 0
  /\ rs_submitted = <<>>

RsOff ==
  /\ rs_text = <<>>
  /\ rs_exists = FALSE
  /\ rs_collabStr = <<>>
  /\ rs_registered = FALSE
  /\ rs_origin = "none"
  /\ rs_notified = 0
  /\ rs_submitted = <<>>

\* the listener registerString connects to str.changed: collabStr.setText(s.getText())
RsOnChanged(text) == <<[op |-> "setText", value |-> text]>>

\* the callback registerString hands to ready.then
RsRegisterString ==
  /\ ~rs_registered
  /\ IF ~rs_exists
       THEN /\ rs_collabStr' = rs_text
            /\ rs_exists' = TRUE
            /\ rs_text' = rs_text
            /\ rs_notified' = 0
       ELSE /\ rs_text' = rs_collabStr
            /\ rs_notified' = 1
            /\ UNCHANGED <<rs_collabStr, rs_exists>>
  /\ rs_registered' = TRUE
  /\ rs_origin' = "register"
  /\ rs_submitted' = <<>>

\* ObservableString.setText called by the application
RsSetText(value) ==
  /\ rs_text' = value
  /\ rs_notified' = 1
  /\ IF rs_registered
       THEN /\ rs_submitted' = RsOnChanged(value)
            /\ rs_collabStr' = value
       ELSE /\ rs_submitted' = <<>>
            /\ rs_collabStr' = rs_collabStr
  /\ rs_origin' = "local"
  /\ UNCHANGED <<rs_exists, rs_registered>>

\* the TEXT_INSERTED / TEXT_DELETED listeners of registerString
RsOnRemoteEvent(evt, remoteText) ==
  /\ IF ~evt.isLocal
       THEN /\ rs_text' = remoteText
            /\ rs_notified' = 1
            /\ rs_submitted' = RsOnChanged(remoteText)
       ELSE /\ rs_text' = rs_text
            /\ rs_notified' = 0
            /\ rs_submitted' = <<>>

\* a collaborator inserts a character: TEXT_INSERTED, isLocal FALSE
RsRemoteInserted(index, ch) ==
  /\ rs_registered
  /\ Len(rs_collabStr) < MaxText
  /\ index \in 0..Len(rs_collabStr)
  /\ rs_collabStr' = InsertAt(rs_collabStr, index, ch)
  /\ RsOnRemoteEvent([type |-> "TEXT_INSERTED", index |-> index,
                      text |-> <<ch>>, isLocal |-> FALSE], rs_collabStr')
  /\ rs_origin' = "remote"
  /\ UNCHANGED <<rs_exists, rs_registered>>

\* a collaborator deletes a character: TEXT_DELETED, isLocal FALSE
RsRemoteDeleted(index) ==
  /\ rs_registered
  /\ index \in 0..Len(rs_collabStr) - 1
  /\ rs_collabStr' = RemoveAt(rs_collabStr, index)
  /\ RsOnRemoteEvent([type |-> "TEXT_DELETED", index |-> index,
                      text |-> <<rs_collabStr[index + 1]>>, isLocal |-> FALSE],
                     rs_collabStr')
  /\ rs_origin' = "remote"
  /\ UNCHANGED <<rs_exists, rs_registered>>

(***************************************************************************)
(* RealtimeNotebookModel.registerCollaborative: two clients that share one *)
(* CollaborativeList.  The list delivers an event to the client that made  *)
(* the change at once (isLocal TRUE) and to the other client later.        *)
(*   nb_cells       cells of each client (cell models)                     *)
(*   nb_list        the shared CollaborativeList (JSON cells)              *)
(*   nb_queue       VALUES_ADDED events not yet delivered to each client   *)
(*   nb_len0        lengths at registration                                *)
(*   nb_userPushes  cells.pushBack calls made by the applications          *)
(*   nb_pushes      push operations submitted to the list                  *)
(***************************************************************************)
Clients == {"A", "B"}

CellTypes == {"code", "markdown"}

\* ICellModel.toJSON
CellToJSON(cell) == [cell_type |-> cell.type]

\* the switch of the VALUES_ADDED listener: new CodeCellModel(json), ...
CellFromJSON(json) ==
  CASE json.cell_type = "code"     -> [cls |-> "CodeCellModel", type |-> "code"]
    [] json.cell_type = "markdown" -> [cls |-> "MarkdownCellModel", type |-> "markdown"]
    [] json.cell_type = "raw"      -> [cls |-> "RawCellModel", type |-> "raw"]

CellModels == {CellFromJSON([cell_type |-> t]) : t \in CellTypes}

NbInit ==
  /\ nb_cells \in [Clients -> SeqsUpTo(CellModels, 1)]
  /\ nb_list = [i \in 1..Len(nb_cells["A"]) |-> CellToJSON(nb_cells["A"][i])]
  /\ nb_queue = [c \in Clients |-> <<>>]
  /\ nb_len0 = [c \in Clients |-> Len(nb_cells[c])]
  /\ nb_userPushes = 0
  /\ nb_pushes = 0

NbOff ==
  /\ nb_cells = [c \in Clients |-> <<>>]
  /\ nb_list = <<>>
  /\ nb_queue = [c \in Clients |-> <<>>]
  /\ nb_len0 = [c \in Clients |-> 0]
  /\ nb_userPushes = 0
  /\ nb_pushes = 0

\* _updateCollaborativeList: the pushes it submits for a change of cells
NbUpdateCollaborativeList(change) ==
  IF change.type = "add" THEN <<CellToJSON(change.newValues[1])>> ELSE <<>>

\* cells.pushBack(cell) on client c, with every listener of cells.changed;
\* q holds the events that are still to be delivered
NbCellsPushBack(c, cell, q) ==
  LET change == [type |-> "add", oldIndex |-> -1, newIndex |-> Len(nb_cells[c]),
                 oldValues |-> <<>>, newValues |-> <<cell>>]
      pushed == NbUpdateCollaborativeList(change)
  IN /\ nb_cells' = [nb_cells EXCEPT ![c] = Append(@, cell)]
     /\ nb_list' = nb_list \o pushed
     /\ nb_pushes' = nb_pushes + Len(pushed)
     /\ nb_queue' = [d \in Clients |->
          IF d = c THEN q[c]
          ELSE q[d] \o [i \in 1..Len(pushed) |->
                 [values |-> <<pushed[i]>>, isLocal |-> FALSE]]]

\* the application of client c adds a cell
NbPushBack(c, cell) ==
  /\ nb_userPushes < MaxUserPushes
  /\ Len(nb_list) < MaxList
  /\ NbCellsPushBack(c, cell, nb_queue)
  /\ nb_userPushes' = nb_userPushes + 1
  /\ UNCHANGED nb_len0

\* the VALUES_ADDED listener of client c handles a collaborator's event
NbOnValuesAdded(c) ==
  /\ nb_queue[c] # <<>>
  /\ Len(nb_list) < MaxList
  /\ LET evt == Head(nb_queue[c])
     IN IF ~evt.isLocal
          THEN NbCellsPushBack(c, CellFromJSON(evt.values[1]),
                               [nb_queue EXCEPT ![c] = Tail(@)])
          ELSE /\ nb_queue' = [nb_queue EXCEPT ![c] = Tail(@)]
               /\ UNCHANGED <<nb_cells, nb_list, nb_pushes>>
  /\ UNCHANGED <<nb_len0, nb_userPushes>>

(***************************************************************************)
(* GoogleRealtimeHandler.registerVector: two clients, each with its own    *)
(* handler and ObservableVector<string>, on the same remote document.      *)
(*   rv_vec         the ObservableVector of each client                    *)
(*   rv_exists      whether the root holds a list under 'collabVec0'       *)
(*   rv_collabVec   the remote CollaborativeList                           *)
(*   rv_registered  whether the ready.then callback of registerVector ran  *)
(*   rv_queue       VALUES_ADDED events not yet delivered to each client   *)
(*   rv_last        the last step                                          *)
(*   rv_clean       every container was empty at registration and every    *)
(*                  pushBack was made with both clients registered         *)
(*   rv_calls       values of the pushBack calls made by the applications  *)
(***************************************************************************)
RvInit ==
  /\ rv_vec \in [Clients -> SeqsUpTo(Texts, 1)]
  /\ rv_exists \in BOOLEAN
  /\ rv_collabVec \in (IF rv_exists THEN SeqsUpTo(Texts, 1) ELSE {<<>>})
  /\ rv_registered = [c \in Clients |-> FALSE]
  /\ rv_queue = [c \in Clients |-> <<>>]
  /\ rv_last = [op |-> "none", c |-> "A"]
  /\ rv_clean = (~rv_exists /\ \A c \in Clients : rv_vec[c] = <<>>)
  /\ rv_calls = <<>>

RvOff ==
  /\ rv_vec = [c \in Clients |-> <<>>]
  /\ rv_exists = FALSE
  /\ rv_collabVec = <<>>
  /\ rv_registered = [c \in Clients |-> FALSE]
  /\ rv_queue = [c \in Clients |-> <<>>]
  /\ rv_last = [op |-> "none", c |-> "A"]
  /\ rv_clean = TRUE
  /\ rv_calls = <<>>

\* the callback registerVector hands to ready.then, on client c
RvRegisterVector(c) ==
  /\ ~rv_registered[c]
  /\ IF ~rv_exists
       THEN rv_collabVec' = <<>> /\ rv_exists' = TRUE
       ELSE UNCHANGED <<rv_collabVec, rv_exists>>
  /\ rv_registered' = [rv_registered EXCEPT ![c] = TRUE]
  /\ rv_last' = [op |-> "register", c |-> c]
  /\ UNCHANGED <<rv_vec, rv_queue, rv_clean, rv_calls>>

\* the listener registerVector connects to vec.changed:
\* collabVec.push(change.newValues.at(0))
RvOnChanged(change) == <<change.newValues[1]>>

\* vec.pushBack(value) on client c, with the listeners of vec.changed;
\* q holds the events that are still to be delivered
RvVecPushBack(c, value, q) ==
  LET change == [type |-> "add", oldIndex |-> -1, newIndex |-> Len(rv_vec[c]),
                 oldValues |-> <<>>, newValues |-> <<value>>]
      pushed == IF rv_registered[c] THEN RvOnChanged(change) ELSE <<>>
  IN /\ rv_vec' = [rv_vec EXCEPT ![c] = Append(@, value)]
     /\ rv_collabVec' = rv_collabVec \o pushed
     /\ rv_queue' = [d \in Clients |->
          IF d = c \/ ~rv_registered[d] THEN q[d]
          ELSE q[d] \o [i \in 1..Len(pushed) |->
                 [values |-> <<pushed[i]>>, isLocal |-> FALSE]]]

\* the application of client c calls vec.pushBack(value)
RvPushBack(c, value) ==
  /\ rv_registered[c]
  /\ Len(rv_calls) < MaxUserPushes
  /\ Len(rv_collabVec) < MaxList
  /\ RvVecPushBack(c, value, rv_queue)
  /\ rv_calls' = Append(rv_calls, value)
  /\ rv_clean' = (rv_clean /\ \A d \in Clients : rv_registered[d])
  /\ rv_last' = [op |-> "pushBack", c |-> c]
  /\ UNCHANGED <<rv_exists, rv_registered>>

\* vec.back: undefined on an empty vector
RvBackIs(vec, value) == vec # <<>> /\ vec[Len(vec)] = value

\* the VALUES_ADDED listener of client c handles a collaborator's event
RvOnValuesAdded(c) ==
  /\ rv_queue[c] # <<>>
  /\ Len(rv_collabVec) < MaxList
  /\ LET evt == Head(rv_queue[c])
         q == [rv_queue EXCEPT ![c] = Tail(@)]
     IN IF ~evt.isLocal /\ ~RvBackIs(rv_vec[c], evt.values[1])
          THEN RvVecPushBack(c, evt.values[1], q)
          ELSE /\ rv_queue' = q
               /\ UNCHANGED <<rv_vec, rv_collabVec>>
  /\ rv_last' = [op |-> "deliver", c |-> c]
  /\ UNCHANGED <<rv_exists, rv_registered, rv_clean, rv_calls>>

(***************************************************************************)
(* GoogleRealtimeHandler (ready, createString, createVector), the          *)
(* constructors of GoogleRealtimeString and GoogleRealtimeVector, and      *)
(* registerCollaborative of DocumentModel and ChatboxContent.              *)
(*   h_creator    this._creator: the handler was built without a fileId    *)
(*   h_stage      "creating", "loading", "loaded", "createFailed" or       *)
(*                "loadFailed"                                             *)
(*   h_ready      state of the `ready` promise                             *)
(*   h_model      this._model: "null" or "model"                           *)
(*   h_root       root of the remote document: for each key whether an     *)
(*                object exists under it, and the object's contents        *)
(*   h_root0      the root when the handler was constructed                *)
(*   h_reactions  callbacks handed to ready.then while it was pending      *)
(*   h_jobs       the microtask queue                                      *)
(*   h_calls      the createString / createVector calls, as issued         *)
(*   h_done       the calls whose constructor ran, in the order they ran   *)
(*   h_last       the last step; for a constructor what it found           *)
(*   dm_text      DocumentModel._text     dm_promise  its registration     *)
(*   cb_entries   ChatboxContent._entries cb_promise  its registration     *)
(*   dm_text0, cb_entries0  the containers before registerCollaborative    *)
(***************************************************************************)
HKeys == {"collabStr", "collabVec"}

HNoObject == [exists |-> FALSE, val |-> <<>>]

HObject(val) == [exists |-> TRUE, val |-> val]

HEmptyRoot == [k \in HKeys |-> HNoObject]

\* initial values handed to createString / createVector
HStrings == {<<>>, <<"a">>}

HVectors == {<<>>, <<Entry("x")>>}

\* documents a collaborator may have left for a handler that loads by fileId
HRoots ==
  {[collabStr |-> s, collabVec |-> v] :
     s \in {HNoObject, HObject(<<"b">>)},
     v \in {HNoObject, HObject(<<toJSON(Entry("y"))>>)}}

HNoStep == [op |-> "none", key |-> "collabStr", existed |-> FALSE,
            before |-> <<>>, init |-> <<>>]

LocalString(text) == [kind |-> "ObservableString", text |-> text, isDisposed |-> FALSE]

LocalVector(items) ==
  [kind |-> "ObservableUndoableVector", items |-> items, isDisposed |-> FALSE]

HInit ==
  /\ h_creator \in BOOLEAN
  /\ h_stage = (IF h_creator THEN "creating" ELSE "loading")
  /\ h_ready = "pending"
  /\ h_model = "null"
  /\ h_root \in (IF h_creator THEN {HEmptyRoot} ELSE HRoots)
  /\ h_root0 = h_root
  /\ h_reactions = <<>>
  /\ h_jobs = <<>>
  /\ h_calls = <<>>
  /\ h_done = <<>>
  /\ h_last = HNoStep
  /\ dm_text \in {LocalString(t) : t \in HStrings}
  /\ dm_text0 = dm_text
  /\ dm_promise = "none"
  /\ cb_entries \in {LocalVector(l) : l \in HVectors}
  /\ cb_entries0 = cb_entries
  /\ cb_promise = "none"

HOff ==
  /\ h_creator = TRUE
  /\ h_stage = "creating"
  /\ h_ready = "pending"
  /\ h_model = "null"
  /\ h_root = HEmptyRoot
  /\ h_root0 = HEmptyRoot
  /\ h_reactions = <<>>
  /\ h_jobs = <<>>
  /\ h_calls = <<>>
  /\ h_done = <<>>
  /\ h_last = HNoStep
  /\ dm_text = LocalString(<<>>)
  /\ dm_text0 = LocalString(<<>>)
  /\ dm_promise = "none"
  /\ cb_entries = LocalVector(<<>>)
  /\ cb_entries0 = LocalVector(<<>>)
  /\ cb_promise = "none"

\* a constructor that writes the initial value over an existing object
GRStringCtorOverwrite(root, id, initialValue) ==
  [root EXCEPT ![id] = HObject(initialValue)]

\* GoogleRealtimeString.constructor: the root after
\* new GoogleRealtimeString(model, id, initialValue)
GRStringCtor(root, id, initialValue) ==
  IF ~root[id].exists
    THEN [root EXCEPT ![id] = HObject(initialValue)]
    ELSE root

\* a constructor that creates no remote list
GRVectorCtorNoCreate(root, id, initialValue) == root

\* GoogleRealtimeVector.constructor: the root after
\* new GoogleRealtimeVector(factory, model, id, initialValue)
GRVectorCtor(root, id, initialValue) ==
  IF ~root[id].exists
    THEN [root EXCEPT ![id] = HObject(toJSONArray(initialValue))]
    ELSE root

\* GoogleRealtimeString.text (getter): this._str.getText()
GRStringText(root, id) == root[id].val

\* GoogleRealtimeVector.iter: the items of the bridge
GRVectorItems(root, id) == fromJSONArray(root[id].val)

\* reactions that run last-registered first
HThenLifo(job) ==
  CASE h_ready = "pending"  -> [reactions |-> <<job>> \o h_reactions, jobs |-> h_jobs]
    [] h_ready = "resolved" -> [reactions |-> h_reactions, jobs |-> <<job>> \o h_jobs]
    [] h_ready = "rejected" -> [reactions |-> h_reactions, jobs |-> h_jobs]

\* this.ready.then(callback): the reactions and the microtask queue after it
HThen(job) ==
  CASE h_ready = "pending"  -> [reactions |-> Append(h_reactions, job), jobs |-> h_jobs]
    [] h_ready = "resolved" -> [reactions |-> h_reactions, jobs |-> Append(h_jobs, job)]
    [] h_ready = "rejected" -> [reactions |-> h_reactions, jobs |-> h_jobs]

\* no microtask is pending: the application and the network get their turn
HIdle == h_jobs = <<>>

HFrameModels == <<dm_text, dm_text0, cb_entries, cb_entries0>>

\* createRealtimeDocument() resolves with the fileId
HCreateResolved ==
  /\ HIdle
  /\ h_stage = "creating"
  /\ h_stage' = "loading"
  /\ h_last' = [HNoStep EXCEPT !.op = "created"]
  /\ UNCHANGED <<h_creator, h_ready, h_model, h_root, h_root0, h_reactions,
                 h_jobs, h_calls, h_done, dm_promise, cb_promise, HFrameModels>>

\* createRealtimeDocument() rejects: the catch rejects `ready`
HCreateRejected ==
  /\ HIdle
  /\ h_stage = "creating"
  /\ h_stage' = "createFailed"
  /\ h_ready' = "rejected"
  /\ h_reactions' = <<>>
  /\ h_last' = [HNoStep EXCEPT !.op = "createRejected"]
  /\ UNCHANGED <<h_creator, h_model, h_root, h_root0, h_jobs, h_calls, h_done,
                 dm_promise, cb_promise, HFrameModels>>

\* loadRealtimeDocument(fileId) resolves with the document
HLoadResolved ==
  /\ HIdle
  /\ h_stage = "loading"
  /\ h_stage' = "loaded"
  /\ h_model' = "model"
  /\ h_ready' = "resolved"
  /\ h_jobs' = h_jobs \o h_reactions
  /\ h_reactions' = <<>>
  /\ h_last' = [HNoStep EXCEPT !.op = "loaded"]
  /\ UNCHANGED <<h_creator, h_root, h_root0, h_calls, h_done, dm_promise,
                 cb_promise, HFrameModels>>

\* loadRealtimeDocument(fileId) rejects: only the promise chain of the branch
\* that was given a fileId ends in a catch
HLoadRejected ==
  /\ HIdle
  /\ h_stage = "loading"
  /\ h_stage' = "loadFailed"
  /\ IF h_creator
       THEN UNCHANGED <<h_ready, h_reactions>>
       ELSE h_ready' = "rejected" /\ h_reactions' = <<>>
  /\ h_last' = [HNoStep EXCEPT !.op = "loadRejected"]
  /\ UNCHANGED <<h_creator, h_model, h_root, h_root0, h_jobs, h_calls, h_done,
                 dm_promise, cb_promise, HFrameModels>>

HCall(kind, init, caller) ==
  [kind |-> kind, init |-> init, caller |-> caller,
   early |-> (h_ready = "pending"), promise |-> "pending", container |-> "none"]

\* the body shared by createString and createVector: a new promise whose
\* executor hands the construction to ready.then
HCreate(kind, init, caller) ==
  LET n == Len(h_calls) + 1
      t == HThen([type |-> "ctor", id |-> n])
  IN /\ h_calls' = Append(h_calls, HCall(kind, init, caller))
     /\ h_reactions' = t.reactions
     /\ h_jobs' = t.jobs

\* createString(initialValue), called by the application
HCreateString(initialValue) ==
  /\ HIdle
  /\ Len(h_calls) < MaxCalls
  /\ HCreate("String", initialValue, "app")
  /\ h_last' = [HNoStep EXCEPT !.op = "createString"]
  /\ UNCHANGED <<h_creator, h_stage, h_ready, h_model, h_root, h_root0, h_done,
                 dm_promise, cb_promise, HFrameModels>>

\* createVector(factory, initialValue), called by the application
HCreateVector(initialValue) ==
  /\ HIdle
  /\ Len(h_calls) < MaxCalls
  /\ HCreate("Vector", initialValue, "app")
  /\ h_last' = [HNoStep EXCEPT !.op = "createVector"]
  /\ UNCHANGED <<h_creator, h_stage, h_ready, h_model, h_root, h_root0, h_done,
                 dm_promise, cb_promise, HFrameModels>>

\* DocumentModel.registerCollaborative(handler)
DmRegisterCollaborative ==
  /\ HIdle
  /\ dm_promise = "none"
  /\ Len(h_calls) < MaxCalls
  /\ dm_promise' = "pending"
  /\ HCreate("String", dm_text.text, "dm")
  /\ h_last' = [HNoStep EXCEPT !.op = "dmRegister"]
  /\ UNCHANGED <<h_creator, h_stage, h_ready, h_model, h_root, h_root0, h_done,
                 cb_promise, HFrameModels>>

\* ChatboxContent.registerCollaborative(handler)
CbRegisterCollaborative ==
  /\ HIdle
  /\ cb_promise = "none"
  /\ Len(h_calls) < MaxCalls
  /\ cb_promise' = "pending"
  /\ HCreate("Vector", cb_entries.items, "cb")
  /\ h_last' = [HNoStep EXCEPT !.op = "cbRegister"]
  /\ UNCHANGED <<h_creator, h_stage, h_ready, h_model, h_root, h_root0, h_done,
                 dm_promise, HFrameModels>>

HKeyOf(kind) == IF kind = "String" THEN "collabStr" ELSE "collabVec"

\* the continuation registerCollaborative attached to the call's promise
HContinuation(call, n) ==
  CASE call.caller = "dm"  -> <<[type |-> "dmThen", id |-> n]>>
    [] call.caller = "cb"  -> <<[type |-> "cbThen", id |-> n]>>
    [] call.caller = "app" -> <<>>

\* the callback createString / createVector handed to ready.then:
\* resolve(new GoogleRealtimeString(this._model, 'collabStr', initialValue||''))
HRunCtor ==
  /\ h_jobs # <<>>
  /\ Head(h_jobs).type = "ctor"
  /\ LET n == Head(h_jobs).id
         call == h_calls[n]
         key == HKeyOf(call.kind)
     IN /\ h_root' = IF call.kind = "String"
                       THEN GRStringCtor(h_root, key, call.init)
                       ELSE GRVectorCtor(h_root, key, call.init)
        /\ h_last' = [op |-> "ctor", key |-> key, existed |-> h_root[key].exists,
                      before |-> h_root[key].val, init |-> call.init]
        /\ h_done' = Append(h_done, n)
        /\ h_calls' = [h_calls EXCEPT ![n].promise = "resolved",
                                       ![n].container =
                                         IF call.kind = "String"
                                           THEN "GoogleRealtimeString"
                                           ELSE "GoogleRealtimeVector"]
        /\ h_jobs' = Tail(h_jobs) \o HContinuation(call, n)
  /\ UNCHANGED <<h_creator, h_stage, h_ready, h_model, h_root0, h_reactions,
                 dm_promise, cb_promise, HFrameModels>>

\* the then-callback of DocumentModel.registerCollaborative
DmThen ==
  /\ h_jobs # <<>>
  /\ Head(h_jobs).type = "dmThen"
  /\ dm_text' = [kind |-> "GoogleRealtimeString", key |-> "collabStr",
                 oldStr |-> [dm_text EXCEPT !.isDisposed = TRUE, !.text = <<>>]]
  /\ dm_promise' = "resolved"
  /\ h_jobs' = Tail(h_jobs)
  /\ h_last' = [HNoStep EXCEPT !.op = "dmThen"]
  /\ UNCHANGED <<h_creator, h_stage, h_ready, h_model, h_root, h_root0,
                 h_reactions, h_calls, h_done, cb_promise, dm_text0, cb_entries,
                 cb_entries0>>

\* the then-callback of ChatboxContent.registerCollaborative
CbThen ==
  /\ h_jobs # <<>>
  /\ Head(h_jobs).type = "cbThen"
  /\ cb_entries' = [kind |-> "GoogleRealtimeVector", key |-> "collabVec",
                    oldVec |-> [cb_entries EXCEPT !.isDisposed = TRUE, !.items = <<>>]]
  /\ cb_promise' = "resolved"
  /\ h_jobs' = Tail(h_jobs)
  /\ h_last' = [HNoStep EXCEPT !.op = "cbThen"]
  /\ UNCHANGED <<h_creator, h_stage, h_ready, h_model, h_root, h_root0,
                 h_reactions, h_calls, h_done, dm_promise, dm_text, dm_text0,
                 cb_entries0>>

(***************************************************************************)
(* ShareString: an observable string on a ShareDB document.                *)
(*   ss_state      this._shareDoc.connection.state                         *)
(*   ss_data       this._shareDoc.data['value'] ('' while there is none)   *)
(*   ss_issued     the operations the application asked for, in order      *)
(*   ss_submitted  the operations handed to shareDoc.submitOp, in order    *)
(*   ss_emitted    Change Events emitted for the last operation            *)
(***************************************************************************)
SsInit ==
  /\ ss_state = "connecting"
  /\ ss_data = <<>>
  /\ ss_issued = <<>>
  /\ ss_submitted = <<>>
  /\ ss_emitted = <<>>

SsOff ==
  /\ ss_state = "off"
  /\ ss_data = <<>>
  /\ ss_issued = <<>>
  /\ ss_submitted = <<>>
  /\ ss_emitted = <<>>

\* ShareString._onOp for one op
SsOnOp(op) ==
  CASE op.kind = "oi" /\ op.text # <<>> ->
         <<[type |-> "set", start |-> 0, end |-> Len(op.text), value |-> op.text]>>
    [] op.kind = "si" /\ op.text # <<>> ->
         <<[type |-> "insert", start |-> op.index, end |-> Len(op.text), value |-> op.text]>>
    [] op.kind = "sd" /\ op.text # <<>> ->
         <<[type |-> "remove", start |-> op.index, end |-> Len(op.text), value |-> op.text]>>
    [] OTHER -> <<>>

\* the document's data after ShareDB applied the op
SsApply(data, op) ==
  CASE op.kind = "oi" -> op.text
    [] op.kind = "si" -> SubSeq(data, 1, op.index) \o op.text \o
                         SubSeq(data, op.index + 1, Len(data))
    [] op.kind = "sd" -> SubSeq(data, 1, op.index) \o
                         SubSeq(data, op.index + Len(op.text) + 1, Len(data))

\* a mutator that wants op submitted: the early return while 'connecting',
\* else shareDoc.submitOp(op), which applies the op and fires 'op'
SsSubmit(op) ==
  /\ Len(ss_issued) < MaxOps
  /\ ss_issued' = Append(ss_issued, op)
  /\ IF ss_state = "connecting"
       THEN UNCHANGED <<ss_data, ss_submitted>> /\ ss_emitted' = <<>>
       ELSE /\ ss_submitted' = Append(ss_submitted, op)
            /\ ss_data' = SsApply(ss_data, op)
            /\ ss_emitted' = SsOnOp(op)
  /\ UNCHANGED ss_state

\* set text(value)
SsSetText(value) ==
  /\ ~(Len(value) = Len(ss_data) /\ value = ss_data)
  /\ SsSubmit([kind |-> "oi", index |-> 0, text |-> value])

\* insert(index, text)
SsInsert(index, text) ==
  /\ index \in 0..Len(ss_data)
  /\ Len(ss_data) + Len(text) <= MaxText
  /\ SsSubmit([kind |-> "si", index |-> index, text |-> text])

\* remove(start, end)
SsRemove(start, end) ==
  /\ start \in 0..Len(ss_data)
  /\ end \in start..Len(ss_data)
  /\ SsSubmit([kind |-> "sd", index |-> start, text |-> SubSeq(ss_data, start + 1, end)])

\* the connection is established
SsConnected ==
  /\ ss_state = "connecting"
  /\ ss_state' = "connected"
  /\ UNCHANGED <<ss_data, ss_issued, ss_submitted, ss_emitted>>

\* the connection is lost and is being re-established
SsReconnecting ==
  /\ ss_state = "connected"
  /\ ss_state' = "connecting"
  /\ UNCHANGED <<ss_data, ss_issued, ss_submitted, ss_emitted>>

(***************************************************************************)
(* GoogleRealtimeVector and GoogleRealtimeString of datastructures.ts      *)
(* (the mutators leave the emission of `changed` to the listeners of the   *)
(* remote object), their dispose() included.                               *)
(*   gd_vector  the vector bridge: vec, the contents of the remote list;   *)
(*              isDisposed; listening, whether the remote list still holds *)
(*              the bridge's listeners; connected, whether slots are       *)
(*              connected to the bridge's `changed` signal                 *)
(*   gd_string  the string bridge, likewise, with str the remote text      *)
(*   gd_last    the last step: the operation, the bridge, whether the      *)
(*              bridge was disposed before it, the bridge before it, the   *)
(*              operations it submitted to the remote object and the       *)
(*              Change Events its slots received; args, the arguments of   *)
(*              an insert or remove call on the string bridge              *)
(***************************************************************************)
GdNoStep(prev) == [op |-> "none", bridge |-> "none", disposed |-> FALSE,
                   prev |-> prev, submitted |-> <<>>, emitted |-> <<>>,
                   args |-> <<>>]

GdInit ==
  /\ gd_vector \in {[vec |-> l, isDisposed |-> FALSE, listening |-> TRUE,
                     connected |-> TRUE] : l \in SeqsUpTo(JSONs, 1)}
  /\ gd_string \in {[str |-> t, isDisposed |-> FALSE, listening |-> TRUE,
                     connected |-> TRUE] : t \in SeqsUpTo(Chars, 1)}
  /\ gd_last = GdNoStep(gd_vector)

GdOff ==
  /\ gd_vector = [vec |-> <<>>, isDisposed |-> TRUE, listening |-> FALSE,
                  connected |-> FALSE]
  /\ gd_string = [str |-> <<>>, isDisposed |-> TRUE, listening |-> FALSE,
                  connected |-> FALSE]
  /\ gd_last = GdNoStep(gd_vector)

\* the Change Events the slots of `changed` receive when the remote object
\* fires events that the bridge's listeners turn into evs
GdDeliver(bridge, evs) ==
  IF bridge.listening /\ bridge.connected THEN evs ELSE <<>>

\* the listeners the GoogleRealtimeVector constructor adds
GdVectorListeners(evt) ==
  CASE evt.type = "VALUES_ADDED" ->
         <<[type |-> "add", oldIndex |-> -1, newIndex |-> evt.index,
            oldValues |-> <<>>, newValues |-> fromJSONArray(evt.values)]>>
    [] evt.type = "VALUES_REMOVED" ->
         <<[type |-> "remove", oldIndex |-> evt.index, newIndex |-> -1,
            oldValues |-> fromJSONArray(evt.values), newValues |-> <<>>]>>
    [] evt.type = "VALUES_SET" ->
         <<[type |-> "set", oldIndex |-> evt.index, newIndex |-> evt.index,
            oldValues |-> fromJSONArray(evt.oldValues),
            newValues |-> fromJSONArray(evt.newValues)]>>

\* the listeners the GoogleRealtimeString constructor adds
GdStringListeners(evt) ==
  CASE evt.type = "TEXT_INSERTED" ->
         <<[type |-> "insert", start |-> evt.index,
            end |-> evt.index + Len(evt.text), value |-> evt.text]>>
    [] evt.type = "TEXT_DELETED" ->
         <<[type |-> "remove", start |-> evt.index,
            end |-> evt.index + Len(evt.text), value |-> evt.text]>>

GdStep(op, bridge, prev, submitted, emitted) ==
  [op |-> op, bridge |-> bridge, disposed |-> prev.isDisposed, prev |-> prev,
   submitted |-> submitted, emitted |-> emitted, args |-> <<>>]

\* GoogleRealtimeVector.set(index, value)
GdVectorSet(index, value) ==
  /\ index \in 0..Len(gd_vector.vec) - 1
  /\ LET evt == [type |-> "VALUES_SET", index |-> index,
                 oldValues |-> <<gd_vector.vec[index + 1]>>,
                 newValues |-> <<toJSON(value)>>]
     IN /\ gd_vector' = [gd_vector EXCEPT !.vec = SetAt(@, index, toJSON(value))]
        /\ gd_last' = GdStep("set", "vector", gd_vector,
                             <<[op |-> "set", index |-> index, value |-> toJSON(value)]>>,
                             GdDeliver(gd_vector, GdVectorListeners(evt)))
  /\ UNCHANGED gd_string

\* GoogleRealtimeVector.pushBack(value)
GdVectorPushBack(value) ==
  /\ Len(gd_vector.vec) < MaxLen
  /\ LET evt == [type |-> "VALUES_ADDED", index |-> Len(gd_vector.vec),
                 values |-> <<toJSON(value)>>]
     IN /\ gd_vector' = [gd_vector EXCEPT !.vec = Append(@, toJSON(value))]
        /\ gd_last' = GdStep("pushBack", "vector", gd_vector,
                             <<[op |-> "push", value |-> toJSON(value)]>>,
                             GdDeliver(gd_vector, GdVectorListeners(evt)))
  /\ UNCHANGED gd_string

\* GoogleRealtimeVector.dispose()
GdVectorDispose ==
  /\ gd_vector' = IF gd_vector.isDisposed
                    THEN gd_vector
                    ELSE [gd_vector EXCEPT !.listening = FALSE,
                                           !.connected = FALSE,
                                           !.isDisposed = TRUE]
  /\ gd_last' = GdStep("dispose", "vector", gd_vector, <<>>, <<>>)
  /\ UNCHANGED gd_string

\* GoogleRealtimeString: set text(value).  The remote string reports the
\* replacement of its text as a deletion of the old text and an insertion of
\* the new one; the setter then emits a 'set' event itself.
GdStringSetText(value) ==
  LET old == gd_string.str
      del == IF old = <<>> THEN <<>>
             ELSE GdStringListeners([type |-> "TEXT_DELETED", index |-> 0, text |-> old])
      ins == IF value = <<>> THEN <<>>
             ELSE GdStringListeners([type |-> "TEXT_INSERTED", index |-> 0, text |-> value])
      set == [type |-> "set", start |-> 0, end |-> Len(value), value |-> value]
  IN /\ gd_string' = [gd_string EXCEPT !.str = value]
     /\ gd_last' = GdStep("setText", "string", gd_string,
                          <<[op |-> "setText", value |-> value]>>,
                          GdDeliver(gd_string, del \o ins) \o
                            (IF gd_string.connected THEN <<set>> ELSE <<>>))
     /\ UNCHANGED gd_vector

\* GoogleRealtimeString.insert(index, text): the body is empty
GdStringInsert(index, text) ==
  /\ index \in 0..Len(gd_string.str)
  /\ gd_last' = [GdStep("insert", "string", gd_string, <<>>, <<>>)
                   EXCEPT !.args = <<index, text>>]
  /\ UNCHANGED <<gd_vector, gd_string>>

\* GoogleRealtimeString.remove(start, end): the body is empty
GdStringRemove(start, end) ==
  /\ start \in 0..Len(gd_string.str)
  /\ end \in start..Len(gd_string.str)
  /\ gd_last' = [GdStep("remove", "string", gd_string, <<>>, <<>>)
                   EXCEPT !.args = <<start, end>>]
  /\ UNCHANGED <<gd_vector, gd_string>>

\* GoogleRealtimeString.dispose()
GdStringDispose ==
  /\ gd_string' = IF gd_string.isDisposed
                    THEN gd_string
                    ELSE [gd_string EXCEPT !.listening = FALSE,
                                           !.connected = FALSE,
                                           !.isDisposed = TRUE]
  /\ gd_last' = GdStep("dispose", "string", gd_string, <<>>, <<>>)
  /\ UNCHANGED gd_vector

\* a collaborator inserts a value into the remote list
GdRemoteAdded(index, json) ==
  /\ Len(gd_vector.vec) < MaxLen
  /\ index \in 0..Len(gd_vector.vec)
  /\ LET evt == [type |-> "VALUES_ADDED", index |-> index, values |-> <<json>>]
     IN /\ gd_vector' = [gd_vector EXCEPT !.vec = InsertAt(@, index, json)]
        /\ gd_last' = GdStep("remote", "vector", gd_vector, <<>>,
                             GdDeliver(gd_vector, GdVectorListeners(evt)))
  /\ UNCHANGED gd_string

\* a collaborator removes a value from the remote list
GdRemoteRemoved(index) ==
  /\ index \in 0..Len(gd_vector.vec) - 1
  /\ LET evt == [type |-> "VALUES_REMOVED", index |-> index,
                 values |-> <<gd_vector.vec[index + 1]>>]
     IN /\ gd_vector' = [gd_vector EXCEPT !.vec = RemoveAt(@, index)]
        /\ gd_last' = GdStep("remote", "vector", gd_vector, <<>>,
                             GdDeliver(gd_vector, GdVectorListeners(evt)))
  /\ UNCHANGED gd_string

\* a collaborator inserts a character into the remote string
GdRemoteInserted(index, ch) ==
  /\ Len(gd_string.str) < MaxText
  /\ index \in 0..Len(gd_string.str)
  /\ LET evt == [type |-> "TEXT_INSERTED", index |-> index, text |-> <<ch>>]
     IN /\ gd_string' = [gd_string EXCEPT !.str = InsertAt(@, index, ch)]
        /\ gd_last' = GdStep("remote", "string", gd_string, <<>>,
                             GdDeliver(gd_string, GdStringListeners(evt)))
  /\ UNCHANGED gd_vector

(***************************************************************************)
(* ObservableVector (observablevector.ts), not linked to a parent.  The    *)
(* base class Vector behaves as the class documents it: insert clamps its  *)
(* index to the bounds of the vector, removeAt returns undefined for an    *)
(* index out of range, popBack returns undefined on an empty vector.       *)
(*   ov_items  the values of the vector                                    *)
(*   ov_last   the last call: its name and arguments, the contents before  *)
(*             it, the `changed` events it emitted, the contents a         *)
(*             listener saw at each emission, and what it returned         *)
(*             (ret: a number; retValue: a value)                          *)
(***************************************************************************)
OvValues == {"a", "b"}

Undefined == "undefined"

Min(a, b) == IF a <= b THEN a ELSE b

Max(a, b) == IF a >= b THEN a ELSE b

\* Vector.insert: the index is clamped to the bounds of the vector
VectorInsert(array, index, value) ==
  InsertAt(array, Max(0, Min(index, Len(array))), value)

\* Vector.removeAt: nothing is removed when the index is out of range
VectorRemoveAt(array, index) ==
  IF index \in 0..Len(array) - 1 THEN RemoveAt(array, index) ELSE array

\* Vector.at: undefined when the index is out of range
VectorAt(array, index) ==
  IF index \in 0..Len(array) - 1 THEN array[index + 1] ELSE Undefined

\* indexOf(this, value): the first index holding value, or -1
IndexOf(array, value) ==
  IF \E i \in 1..Len(array) : array[i] = value
    THEN (CHOOSE i \in 1..Len(array) :
            array[i] = value /\ \A j \in 1..i - 1 : array[j] # value) - 1
    ELSE -1

ChangedArgs(type, oldIndex, newIndex, oldValues, newValues) ==
  [type |-> type, oldIndex |-> oldIndex, newIndex |-> newIndex,
   oldValues |-> oldValues, newValues |-> newValues]

OvCall(op, index, index2, value, values, emitted, ret, retValue) ==
  [op |-> op, index |-> index, index2 |-> index2, value |-> value,
   values |-> values, before |-> ov_items, emitted |-> emitted,
   seen |-> [i \in 1..Len(emitted) |-> ov_items'], ret |-> ret,
   retValue |-> retValue]

OvInit ==
  /\ ov_items \in SeqsUpTo(OvValues, 1)
  /\ ov_last = [op |-> "none", index |-> 0, index2 |-> 0, value |-> Undefined,
                values |-> <<>>, before |-> ov_items, emitted |-> <<>>,
                seen |-> <<>>, ret |-> 0, retValue |-> Undefined]

OvOff ==
  /\ ov_items = <<>>
  /\ ov_last = [op |-> "none", index |-> 0, index2 |-> 0, value |-> Undefined,
                values |-> <<>>, before |-> <<>>, emitted |-> <<>>,
                seen |-> <<>>, ret |-> 0, retValue |-> Undefined]

\* set(index, value)
OvSet(index, value) ==
  /\ index \in 0..Len(ov_items) - 1
  /\ ov_items' = SetAt(ov_items, index, value)
  /\ ov_last' = OvCall("set", index, 0, value, <<>>,
                       <<ChangedArgs("set", index, index,
                                     <<VectorAt(ov_items, index)>>, <<value>>)>>,
                       0, Undefined)

\* pushBack(value)
OvPushBack(value) ==
  /\ Len(ov_items) < MaxLen
  /\ ov_items' = Append(ov_items, value)
  /\ ov_last' = OvCall("pushBack", 0, 0, value, <<>>,
                       <<ChangedArgs("add", -1, Len(ov_items') - 1, <<>>, <<value>>)>>,
                       Len(ov_items'), Undefined)

\* popBack()
OvPopBack ==
  LET value == VectorAt(ov_items, Len(ov_items) - 1)
  IN /\ ov_items' = VectorRemoveAt(ov_items, Len(ov_items) - 1)
     /\ ov_last' = OvCall("popBack", 0, 0, Undefined, <<>>,
                          <<ChangedArgs("remove", Len(ov_items'), -1, <<value>>, <<>>)>>,
                          0, value)

\* insert(index, value)
OvInsert(index, value) ==
  /\ Len(ov_items) < MaxLen
  /\ ov_items' = VectorInsert(ov_items, index, value)
  /\ ov_last' = OvCall("insert", index, 0, value, <<>>,
                       <<ChangedArgs("add", -1, index, <<>>, <<value>>)>>,
                       Len(ov_items'), Undefined)

\* the body of removeAt(index): the contents after it, the value it returns
\* and the event it emits
OvRemoveAtBody(items, index) ==
  [items |-> VectorRemoveAt(items, index),
   value |-> VectorAt(items, index),
   emitted |-> <<ChangedArgs("remove", index, -1, <<VectorAt(items, index)>>, <<>>)>>]

\* removeAt(index)
OvRemoveAt(index) ==
  LET r == OvRemoveAtBody(ov_items, index)
  IN /\ ov_items' = r.items
     /\ ov_last' = OvCall("removeAt", index, 0, Undefined, <<>>, r.emitted, 0, r.value)

\* remove(value): index = indexOf(this, value); this.removeAt(index)
OvRemove(value) ==
  LET index == IndexOf(ov_items, value)
      r == OvRemoveAtBody(ov_items, index)
  IN /\ ov_items' = r.items
     /\ ov_last' = OvCall("remove", 0, 0, value, <<>>, r.emitted, index, Undefined)

\* clear()
OvClear ==
  /\ ov_items' = <<>>
  /\ ov_last' = OvCall("clear", 0, 0, Undefined, <<>>,
                       <<ChangedArgs("remove", 0, 0, ov_items, <<>>)>>,
                       0, Undefined)

\* move(fromIndex, toIndex)
OvMove(fromIndex, toIndex) ==
  /\ fromIndex \in 0..Len(ov_items) - 1
  /\ toIndex \in 0..Len(ov_items) - 1
  /\ LET value == VectorAt(ov_items, fromIndex)
         removed == VectorRemoveAt(ov_items, fromIndex)
     IN /\ ov_items' = IF toIndex < fromIndex
                         THEN VectorInsert(removed, toIndex - 1, value)
                         ELSE VectorInsert(removed, toIndex, value)
        /\ ov_last' = OvCall("move", fromIndex, toIndex, Undefined, <<>>,
                             <<ChangedArgs("move", fromIndex, toIndex,
                                           <<value>>, <<value>>)>>,
                             0, Undefined)

\* a pushAll that emits one event per value
OvPushAllPerValue(values) ==
  /\ Len(ov_items) + Len(values) <= MaxLen
  /\ ov_items' = ov_items \o values
  /\ ov_last' = OvCall("pushAll", 0, 0, Undefined, values,
                       [i \in 1..Len(values) |->
                          ChangedArgs("add", -1, Len(ov_items) + i - 1, <<>>, <<values[i]>>)],
                       Len(ov_items'), Undefined)

\* pushAll(values)
OvPushAll(values) ==
  /\ Len(ov_items) + Len(values) <= MaxLen
  /\ ov_items' = ov_items \o values
  /\ ov_last' = OvCall("pushAll", 0, 0, Undefined, values,
                       <<ChangedArgs("add", -1, Len(ov_items), <<>>, values)>>,
                       Len(ov_items'), Undefined)

\* each(newValues, value => { super.insert(index++, value); })
RECURSIVE OvInsertEach(_, _, _)
OvInsertEach(array, index, values) ==
  IF values = <<>>
    THEN array
    ELSE OvInsertEach(VectorInsert(array, index, Head(values)), index + 1, Tail(values))

\* insertAll(index, values)
OvInsertAll(index, values) ==
  /\ Len(ov_items) + Len(values) <= MaxLen
  /\ ov_items' = OvInsertEach(ov_items, index, values)
  /\ ov_last' = OvCall("insertAll", index, 0, Undefined, values,
                       <<ChangedArgs("add", -1, index, <<>>, values)>>,
                       Len(ov_items'), Undefined)

\* for (i = startIndex; i < endIndex; i++) oldValues.push(super.removeAt(startIndex))
RECURSIVE OvRemoveEach(_, _, _)
OvRemoveEach(array, startIndex, count) ==
  IF count <= 0
    THEN [items |-> array, oldValues |-> <<>>]
    ELSE LET rest == OvRemoveEach(VectorRemoveAt(array, startIndex), startIndex, count - 1)
         IN [items |-> rest.items,
             oldValues |-> <<VectorAt(array, startIndex)>> \o rest.oldValues]

\* removeRange(startIndex, endIndex)
OvRemoveRange(startIndex, endIndex) ==
  /\ startIndex \in 0..Len(ov_items)
  /\ endIndex \in startIndex..Len(ov_items)
  /\ LET r == OvRemoveEach(ov_items, startIndex, endIndex - startIndex)
     IN /\ ov_items' = r.items
        /\ ov_last' = OvCall("removeRange", startIndex, endIndex, Undefined, <<>>,
                             <<ChangedArgs("remove", startIndex, -1, r.oldValues, <<>>)>>,
                             Len(ov_items'), Undefined)

(***************************************************************************)
(* RacerVector (part_003): an observable, undoable vector stored in a      *)
(* racer model.  The model keeps a JavaScript array at the vector's path;  *)
(* a mutation of the array fires its event synchronously, and the          *)
(* listeners of the constructor turn it into a `changed` emission, which   *)
(* _onVectorChanged (the first slot connected) records in the journal.     *)
(*   rc_vec    the vector: array, the values at its path in the model;     *)
(*             length, inCompound, isUndoable, madeCompoundChange, index   *)
(*             and stack, the fields of the same names; emitted, the       *)
(*             Change Events the slots of `changed` received during the    *)
(*             last call                                                   *)
(*   rc_plain  bookkeeping for a run of n recorded mutations followed by   *)
(*             k undo() and r redo() calls, with no compound operation:    *)
(*             snaps holds the contents at construction and after each     *)
(*             of the n mutations                                          *)
(*   rc_cmp    bookkeeping for one compound operation: the contents,       *)
(*             cursor and journal when it began, the number k of changes   *)
(*             recorded in it, the contents when it ended, and whether it  *)
(*             has since been undone and redone; sound, whether the vector *)
(*             was well formed when it began                               *)
(*   rc_calls  the number of mutator calls made so far                     *)
(*   rc_last   the last call when it was undo(), redo() or insertAll(),    *)
(*             with the vector as it was when the call began               *)
(***************************************************************************)
Reverse(s) == [i \in 1..Len(s) |-> s[Len(s) + 1 - i]]

\* Array.prototype.slice(from, to) for 0 <= from, both clamped to the length
Slice(array, from, to) ==
  [i \in 1..Max(0, Min(to, Len(array)) - Min(from, Len(array))) |->
     array[Min(from, Len(array)) + i]]

\* the start of a splice: a negative index counts from the end of the array
SpliceStart(array, index) ==
  IF index < 0 THEN Max(Len(array) + index, 0) ELSE Min(index, Len(array))

\* Array.prototype.splice(index, howMany): the removed values
SpliceRemoved(array, index, howMany) ==
  Slice(array, SpliceStart(array, index), SpliceStart(array, index) + Max(0, howMany))

\* Array.prototype.splice(index, howMany): the array left
SpliceOut(array, index, howMany) ==
  Slice(array, 0, SpliceStart(array, index)) \o
  Slice(array, SpliceStart(array, index) + Max(0, howMany), Len(array))

\* Array.prototype.splice(index, 0, ...values)
SpliceIn(array, index, values) ==
  Slice(array, 0, SpliceStart(array, index)) \o values \o
  Slice(array, SpliceStart(array, index), Len(array))

\* array[index] = value, the array growing with holes when index is beyond it
ArraySet(array, index, value) ==
  [i \in 1..Max(Len(array), index + 1) |->
     IF i = index + 1 THEN value
     ELSE IF i <= Len(array) THEN array[i] ELSE Undefined]

\* a journal that moves the cursor at every change, compound or not
RcOnVectorChangedPerChange(v, change) ==
  IF ~v.isUndoable
    THEN v
    ELSE LET sliced == Slice(v.stack, 0, v.index + 1)
         IN [v EXCEPT !.stack = Append(sliced, <<change>>),
                      !.index = @ + 1,
                      !.madeCompoundChange = IF v.inCompound THEN TRUE ELSE @]

\* RacerVector._onVectorChanged
RcOnVectorChanged(v, change) ==
  IF ~v.isUndoable
    THEN v
    ELSE LET sliced == IF ~v.inCompound \/ ~v.madeCompoundChange
                         THEN Slice(v.stack, 0, v.index + 1)
                         ELSE v.stack
             stack == IF v.index + 2 <= Len(sliced)
                        THEN [sliced EXCEPT ![v.index + 2] = Append(@, change)]
                        ELSE Append(sliced, <<change>>)
         IN [v EXCEPT !.stack = stack,
                      !.index = IF ~v.inCompound THEN @ + 1 ELSE @,
                      !.madeCompoundChange = IF v.inCompound THEN TRUE ELSE @]

\* this._changed.emit(change): the slots of `changed` run, _onVectorChanged
\* among them
RcEmit(v, change) ==
  RcOnVectorChanged([v EXCEPT !.emitted = Append(@, change)], change)

\* model.set(path + '.' + index, value) and the 'change' listener
RcModelSet(v, index, value) ==
  RcEmit([v EXCEPT !.array = ArraySet(@, index, value)],
         ChangedArgs("set", index, index, <<VectorAt(v.array, index)>>, <<value>>))

\* model.insert(path, index, values) and the 'insert' listener
RcModelInsert(v, index, values) ==
  RcEmit([v EXCEPT !.array = SpliceIn(@, index, values),
                   !.length = @ + Len(values)],
         ChangedArgs("add", -1, index, <<>>, values))

\* model.remove(path, index, howMany) and the 'remove' listener
RcModelRemove(v, index, howMany) ==
  LET removed == SpliceRemoved(v.array, index, howMany)
  IN RcEmit([v EXCEPT !.array = SpliceOut(@, index, howMany),
                      !.length = @ - Len(removed)],
            ChangedArgs("remove", index, -1, removed, <<>>))

\* model.move(path, from, to, 1) and the 'move' listener
RcModelMove(v, from, to) ==
  LET moved == SpliceRemoved(v.array, from, 1)
      array == SpliceIn(SpliceOut(v.array, from, 1), to, moved)
      value == VectorAt(array, to)
  IN RcEmit([v EXCEPT !.array = array],
            ChangedArgs("move", from, to, <<value>>, <<value>>))

\* set(index, value): undefined is stored as null; bails if the value does
\* not change
RcSetBody(v, index, value) ==
  LET stored == IF value = Undefined THEN "null" ELSE value
  IN IF VectorAt(v.array, index) = stored THEN v ELSE RcModelSet(v, index, stored)

\* pushBack(value): model.push(path, value)
RcPushBackBody(v, value) == RcModelInsert(v, Len(v.array), <<value>>)

\* popBack(): model.pop(path)
RcPopBackBody(v) == RcModelRemove(v, Len(v.array) - 1, 1)

\* insert(index, value)
RcInsertBody(v, index, value) == RcModelInsert(v, index, <<value>>)

\* removeAt(index)
RcRemoveAtBody(v, index) == RcModelRemove(v, index, 1)

\* clear()
RcClearBody(v) == RcModelRemove(v, 0, v.length)

\* move(fromIndex, toIndex)
RcMoveBody(v, fromIndex, toIndex) ==
  IF v.length <= 1 \/ fromIndex = toIndex THEN v ELSE RcModelMove(v, fromIndex, toIndex)

\* pushAll(values)
RcPushAllBody(v, values) == RcModelInsert(v, v.length, values)

\* removeRange(startIndex, endIndex)
RcRemoveRangeBody(v, startIndex, endIndex) ==
  RcModelRemove(v, startIndex, endIndex - startIndex)

\* each(values, () => { this.removeAt(index); })
RECURSIVE RcRemoveTimes(_, _, _)
RcRemoveTimes(v, index, count) ==
  IF count <= 0 THEN v ELSE RcRemoveTimes(RcRemoveAtBody(v, index), index, count - 1)

\* each(values, value => { this.set(index++, value); })
RECURSIVE RcSetEach(_, _, _)
RcSetEach(v, index, values) ==
  IF values = <<>>
    THEN v
    ELSE RcSetEach(RcSetBody(v, index, Head(values)), index + 1, Tail(values))

\* each(values, value => { this.insert(index++, value); })
RECURSIVE RcInsertEach(_, _, _)
RcInsertEach(v, index, values) ==
  IF values = <<>>
    THEN v
    ELSE RcInsertEach(RcInsertBody(v, index, Head(values)), index + 1, Tail(values))

\* an undo that takes back one value of an 'add', however many were added
RcUndoChangeOneValue(v, change) ==
  CASE change.type = "add" -> RcRemoveTimes(v, change.newIndex, 1)
    [] change.type = "set" -> RcSetEach(v, change.oldIndex, change.oldValues)
    [] change.type = "remove" -> RcInsertEach(v, change.oldIndex, change.oldValues)
    [] change.type = "move" -> RcMoveBody(v, change.newIndex, change.oldIndex)

\* RacerVector._undoChange
RcUndoChange(v, change) ==
  CASE change.type = "add" ->
         RcRemoveTimes(v, change.newIndex, Len(change.newValues))
    [] change.type = "set" -> RcSetEach(v, change.oldIndex, change.oldValues)
    [] change.type = "remove" -> RcInsertEach(v, change.oldIndex, change.oldValues)
    [] change.type = "move" -> RcMoveBody(v, change.newIndex, change.oldIndex)

\* RacerVector._redoChange: the vector after it
RcRedoChange(v, change) ==
  CASE change.type = "add" -> RcInsertEach(v, change.newIndex, change.newValues)
    [] change.type = "set" -> RcSetEach(v, change.newIndex, change.newValues)
    [] change.type = "remove" ->
         RcRemoveTimes(v, change.oldIndex, Len(change.oldValues))
    [] change.type = "move" -> RcMoveBody(v, change.oldIndex, change.newIndex)

\* RacerVector._redoChange: the recorded change after it; the 'set' branch
\* advances change.newIndex itself (this.set(change.newIndex++, value))
RcRedone(change) ==
  IF change.type = "set"
    THEN [change EXCEPT !.newIndex = @ + Len(change.newValues)]
    ELSE change

\* for (let change of changes) this._undoChange(change)
RECURSIVE RcUndoAll(_, _)
RcUndoAll(v, changes) ==
  IF changes = <<>> THEN v ELSE RcUndoAll(RcUndoChange(v, Head(changes)), Tail(changes))

\* for (let change of changes) this._redoChange(change)
RECURSIVE RcRedoAll(_, _)
RcRedoAll(v, changes) ==
  IF changes = <<>> THEN v ELSE RcRedoAll(RcRedoChange(v, Head(changes)), Tail(changes))

\* canUndo
RcCanUndo(v) == v.index >= 0

\* canRedo
RcCanRedo(v) == v.index < Len(v.stack) - 1

\* an undo() that forgets the journal when there is nothing to undo
RcUndoBodyDropsJournal(v) ==
  IF ~RcCanUndo(v)
    THEN [v EXCEPT !.index = -1, !.stack = <<>>]
    ELSE IF v.index + 1 > Len(v.stack)
      THEN [v EXCEPT !.isUndoable = FALSE]
      ELSE LET changes == Reverse(v.stack[v.index + 1])
               v1 == [v EXCEPT !.stack[v.index + 1] = changes, !.isUndoable = FALSE]
               v2 == RcUndoAll(v1, changes)
           IN [v2 EXCEPT !.isUndoable = TRUE, !.index = @ - 1]

\* undo(): changes.reverse() reverses the recorded batch in place; a cursor
\* beyond the stack makes it throw after _isUndoable was cleared
RcUndoBody(v) ==
  IF ~RcCanUndo(v)
    THEN v
    ELSE IF v.index + 1 > Len(v.stack)
      THEN [v EXCEPT !.isUndoable = FALSE]
      ELSE LET changes == Reverse(v.stack[v.index + 1])
               v1 == [v EXCEPT !.stack[v.index + 1] = changes, !.isUndoable = FALSE]
               v2 == RcUndoAll(v1, changes)
           IN [v2 EXCEPT !.isUndoable = TRUE, !.index = @ - 1]

\* a redo() that leaves the journal recording while it replays
RcRedoBodyRecording(v) ==
  IF ~RcCanRedo(v)
    THEN v
    ELSE LET index == v.index + 1
             v1 == [v EXCEPT !.index = index]
         IN RcRedoAll(v1, v.stack[index + 1])

\* redo()
RcRedoBody(v) ==
  IF ~RcCanRedo(v)
    THEN v
    ELSE LET index == v.index + 1
             changes == v.stack[index + 1]
             v1 == [v EXCEPT !.index = index, !.isUndoable = FALSE]
             v2 == RcRedoAll(v1, changes)
         IN [v2 EXCEPT !.isUndoable = TRUE,
                       !.stack[index + 1] =
                         [j \in 1..Len(changes) |-> RcRedone(changes[j])]]

RcValues == {"a", "b"}

RcNotPlain == [ok |-> FALSE, n |-> 0, k |-> 0, r |-> 0, snaps |-> <<>>]

RcNoCmp == [phase |-> "none", before |-> <<>>, after |-> <<>>, index0 |-> -1,
            stack0 |-> <<>>, k |-> 0, sound |-> TRUE]

\* the vector is as well-formed use leaves it: the cursor is on a batch of
\* the journal or before its first batch, _length is the length of the array
\* and the array has no holes (an endCompoundOperation() without a
\* beginCompoundOperation(), or undo() and redo() inside a compound
\* operation, can leave it otherwise)
RcSound(v) ==
  /\ v.index < Len(v.stack)
  /\ v.length = Len(v.array)
  /\ \A i \in 1..Len(v.array) : v.array[i] # Undefined

RcNoLast == [op |-> "none"]

\* new RacerVector(model, path)
RcInit ==
  /\ rc_vec = [array |-> <<>>, length |-> 0, inCompound |-> FALSE,
               isUndoable |-> TRUE, madeCompoundChange |-> FALSE, index |-> -1,
               stack |-> <<>>, emitted |-> <<>>]
  /\ rc_plain = [ok |-> TRUE, n |-> 0, k |-> 0, r |-> 0, snaps |-> <<<<>>>>]
  /\ rc_cmp = RcNoCmp
  /\ rc_calls = 0
  /\ rc_last = RcNoLast

RcOff ==
  /\ rc_vec = [array |-> <<>>, length |-> 0, inCompound |-> FALSE,
               isUndoable |-> FALSE, madeCompoundChange |-> FALSE, index |-> -1,
               stack |-> <<>>, emitted |-> <<>>]
  /\ rc_plain = RcNotPlain
  /\ rc_cmp = RcNoCmp
  /\ rc_calls = 0
  /\ rc_last = RcNoLast

\* the vector at the start of a call
RcCalled == [rc_vec EXCEPT !.emitted = <<>>]

\* a mutator call that leaves the vector as v: the bookkeeping
RcMutatedLast(v, last) ==
  /\ rc_calls < MaxRcOps
  /\ rc_calls' = rc_calls + 1
  /\ rc_last' = last
  /\ Len(v.array) <= MaxRcLen
  /\ rc_vec' = v
  /\ rc_plain' =
       IF ~rc_plain.ok \/ rc_vec.inCompound
         THEN RcNotPlain
         ELSE IF v.emitted = <<>> \/ ~rc_vec.isUndoable
           THEN rc_plain
           ELSE IF rc_plain.k = 0 /\ rc_plain.r = 0
             THEN [rc_plain EXCEPT !.n = @ + 1, !.snaps = Append(@, v.array)]
             ELSE RcNotPlain
  /\ rc_cmp' =
       IF rc_cmp.phase = "open"
         THEN [rc_cmp EXCEPT !.k = @ + (IF rc_vec.isUndoable THEN Len(v.emitted) ELSE 0)]
         ELSE RcNoCmp

RcMutated(v) == RcMutatedLast(v, RcNoLast)

RcInRange(index) == index \in 0..Len(rc_vec.array) - 1

RcSet(index, value) ==
  /\ RcInRange(index)
  /\ RcMutated(RcSetBody(RcCalled, index, value))

RcPushBack(value) == RcMutated(RcPushBackBody(RcCalled, value))

RcPopBack ==
  /\ rc_vec.array # <<>>
  /\ RcMutated(RcPopBackBody(RcCalled))

RcInsert(index, value) ==
  /\ index \in 0..Len(rc_vec.array)
  /\ RcMutated(RcInsertBody(RcCalled, index, value))

RcRemoveAt(index) ==
  /\ RcInRange(index)
  /\ RcMutated(RcRemoveAtBody(RcCalled, index))

RcClear ==
  /\ rc_vec.array # <<>>
  /\ RcMutated(RcClearBody(RcCalled))

RcMove(fromIndex, toIndex) ==
  /\ RcInRange(fromIndex)
  /\ RcInRange(toIndex)
  /\ RcMutated(RcMoveBody(RcCalled, fromIndex, toIndex))

RcPushAll(values) ==
  /\ values # <<>>
  /\ RcMutated(RcPushAllBody(RcCalled, values))

RcRemoveRange(startIndex, endIndex) ==
  /\ RcInRange(startIndex)
  /\ endIndex \in startIndex + 1..Len(rc_vec.array)
  /\ RcMutated(RcRemoveRangeBody(RcCalled, startIndex, endIndex))

\* insertAll(index, values): the body is `return this.length`
RcInsertAll(index, values) ==
  /\ index \in 0..Len(rc_vec.array)
  /\ values # <<>>
  /\ RcMutatedLast(RcCalled, [op |-> "insertAll", prev |-> RcCalled, index |-> index,
                              values |-> values, ret |-> rc_vec.length])

\* beginCompoundOperation(isUndoAble)
RcBeginCompoundOperation(isUndoAble) ==
  /\ rc_vec' = [RcCalled EXCEPT !.inCompound = TRUE, !.isUndoable = isUndoAble,
                                !.madeCompoundChange = FALSE]
  /\ rc_cmp' = IF ~rc_vec.inCompound /\ rc_vec.isUndoable
                 THEN [phase |-> "open", before |-> rc_vec.array, after |-> <<>>,
                       index0 |-> rc_vec.index, stack0 |-> rc_vec.stack, k |-> 0,
                       sound |-> RcSound(rc_vec)]
                 ELSE RcNoCmp
  /\ rc_plain' = RcNotPlain
  /\ UNCHANGED rc_calls
  /\ rc_last' = RcNoLast

\* endCompoundOperation()
RcEndCompoundOperation ==
  /\ rc_vec.index < MaxRcOps
  /\ rc_vec' = [RcCalled EXCEPT !.inCompound = FALSE, !.isUndoable = TRUE,
                                !.index = IF rc_vec.madeCompoundChange THEN @ + 1 ELSE @]
  /\ rc_cmp' = IF rc_cmp.phase = "open"
                 THEN [rc_cmp EXCEPT !.phase = "closed", !.after = rc_vec.array]
                 ELSE RcNoCmp
  /\ rc_plain' = RcNotPlain
  /\ UNCHANGED rc_calls
  /\ rc_last' = RcNoLast

\* the journal and the array are within the bounds of the model
RcBounded ==
  /\ Len(rc_vec.array) <= MaxRcLen
  /\ rc_vec.length >= -MaxRcLen
  /\ \A i \in 1..Len(rc_vec.stack) : \A j \in 1..Len(rc_vec.stack[i]) :
       rc_vec.stack[i][j].newIndex <= MaxRcLen

\* undo()
RcUndo ==
  /\ RcBounded
  /\ rc_vec' = RcUndoBody(RcCalled)
  /\ rc_plain' = IF rc_plain.ok /\ rc_plain.r = 0 /\ rc_plain.k < rc_plain.n
                   THEN [rc_plain EXCEPT !.k = @ + 1]
                   ELSE RcNotPlain
  /\ rc_cmp' = IF rc_cmp.phase = "closed" /\ rc_cmp.k >= 1
                 THEN [rc_cmp EXCEPT !.phase = "undone"]
                 ELSE RcNoCmp
  /\ UNCHANGED rc_calls
  /\ rc_last' = [op |-> "undo", prev |-> RcCalled]

\* redo()
RcRedo ==
  /\ RcBounded
  /\ rc_vec' = RcRedoBody(RcCalled)
  /\ rc_plain' = IF /\ rc_plain.ok
                    /\ rc_plain.n > 0
                    /\ rc_plain.k = rc_plain.n
                    /\ rc_plain.r < rc_plain.n
                   THEN [rc_plain EXCEPT !.r = @ + 1]
                   ELSE RcNotPlain
  /\ rc_cmp' = IF rc_cmp.phase = "undone"
                 THEN [rc_cmp EXCEPT !.phase = "redone"]
                 ELSE RcNoCmp
  /\ UNCHANGED rc_calls
  /\ rc_last' = [op |-> "redo", prev |-> RcCalled]

\* clearUndo()
RcClearUndo ==
  /\ rc_vec' = [RcCalled EXCEPT !.index = -1, !.stack = <<>>]
  /\ rc_plain' = RcNotPlain
  /\ rc_cmp' = RcNoCmp
  /\ UNCHANGED rc_calls
  /\ rc_last' = RcNoLast

(***************************************************************************)
(* RacerMap (racermap.ts).  JSON values are written as their JSON text;    *)
(* model.get of a path that holds nothing returns undefined.               *)
(*   rm_data  the object at the map's path in the model: for each key its  *)
(*            value, or undefined when the key is absent                   *)
(*   rm_last  the last call: its name, key and value, the object before    *)
(*            it, the writes it made to the model, the `changed` events it *)
(*            emitted, whether it threw and what it returned               *)
(***************************************************************************)
RmKeys == {"k1", "k2"}

RmFalsy == {"0", "false", "\"\"", "null"}

RmValues == {"\"a\"", "1"} \cup RmFalsy

\* the truth value JavaScript gives a value in a condition
RmTruthy(value) == value \notin RmFalsy \cup {Undefined}

\* the 'change' listener the constructor registers on path.*
RmOnChange(key, value, previous) ==
  [type |-> IF RmTruthy(value) /\ RmTruthy(previous) THEN "change"
            ELSE IF RmTruthy(value) /\ ~RmTruthy(previous) THEN "add"
            ELSE "remove",
   key |-> key, oldValue |-> previous, newValue |-> value]

RmCall(op, key, value, writes, emitted, threw, ret) ==
  [op |-> op, key |-> key, value |-> value, prev |-> rm_data, writes |-> writes,
   emitted |-> emitted, threw |-> threw, ret |-> ret]

\* new RacerMap(model, path): model.set(path, {})
RmInit ==
  /\ rm_data = [k \in RmKeys |-> Undefined]
  /\ rm_last = [op |-> "none", key |-> "k1", value |-> Undefined,
                prev |-> [k \in RmKeys |-> Undefined], writes |-> 0,
                emitted |-> <<>>, threw |-> FALSE, ret |-> Undefined]

RmOff ==
  /\ rm_data = [k \in RmKeys |-> Undefined]
  /\ rm_last = [op |-> "off", key |-> "k1", value |-> Undefined,
                prev |-> [k \in RmKeys |-> Undefined], writes |-> 0,
                emitted |-> <<>>, threw |-> FALSE, ret |-> Undefined]

\* get(key)
RmGet(data, key) == data[key]

\* a set(key, value) that writes whatever the stored value is
RmSetAlwaysWrites(key, value) ==
  LET oldVal == RmGet(rm_data, key)
  IN IF value = Undefined
       THEN /\ rm_data' = rm_data
            /\ rm_last' = RmCall("set", key, value, 0, <<>>, TRUE, Undefined)
       ELSE /\ rm_data' = [rm_data EXCEPT ![key] = value]
            /\ rm_last' = RmCall("set", key, value, 1,
                                 <<RmOnChange(key, value, oldVal)>>, FALSE, oldVal)

\* set(key, value)
RmSet(key, value) ==
  LET oldVal == RmGet(rm_data, key)
  IN IF value = Undefined
       THEN /\ rm_data' = rm_data
            /\ rm_last' = RmCall("set", key, value, 0, <<>>, TRUE, Undefined)
       ELSE IF oldVal # Undefined /\ oldVal = value
         THEN /\ rm_data' = rm_data
              /\ rm_last' = RmCall("set", key, value, 0, <<>>, FALSE, Undefined)
         ELSE /\ rm_data' = [rm_data EXCEPT ![key] = value]
              /\ rm_last' = RmCall("set", key, value, 1,
                                   <<RmOnChange(key, value, oldVal)>>, FALSE, oldVal)

\* delete(key): model.del(path.key), for a key the map holds
RmDelete(key) ==
  LET oldVal == RmGet(rm_data, key)
  IN /\ oldVal # Undefined
     /\ rm_data' = [rm_data EXCEPT ![key] = Undefined]
     /\ rm_last' = RmCall("delete", key, Undefined, 1,
                          <<RmOnChange(key, Undefined, oldVal)>>, FALSE, oldVal)

\* a second new RacerMap(model, path) on the model and path of the first:
\* model.set(path, {}) replaces the object at the path; the 'change'
\* listener of the first map is registered on path.* and is not called for
\* a write to the path itself
RmConstruct ==
  /\ rm_data' = [k \in RmKeys |-> Undefined]
  /\ rm_last' = RmCall("constructor", "k1", Undefined, 1, <<>>, FALSE, Undefined)

(***************************************************************************)
(* ObservableMap over a racer model (part_002).  The constructor registers *)
(* no listener on the model.  model.get of a path that holds nothing       *)
(* returns undefined; model.set of path.key creates the object at path     *)
(* when it is missing; model.del returns what the path held.               *)
(*   om_data  what the map's path holds in the model: exists, whether it   *)
(*            holds an object; obj, for each key its value, or undefined   *)
(*   om_last  the last call: its name, key and value, om_data before it,   *)
(*            the `changed` events it emitted, whether it threw and what   *)
(*            it returned (TheObject: the whole object at the path)        *)
(***************************************************************************)
OmKeySet == {"k1", "k2"}

OmValues == {"a", "b", "c"}

TheObject == "[object Object]"

OmEmpty == [k \in OmKeySet |-> Undefined]

OmCall(op, key, value, emitted, threw, ret) ==
  [op |-> op, key |-> key, value |-> value, prev |-> om_data,
   emitted |-> emitted, threw |-> threw, ret |-> ret]

\* new ObservableMap({model, path}): model.set(path, {})
OmInit ==
  /\ om_data = [exists |-> TRUE, obj |-> OmEmpty]
  /\ om_last = [op |-> "none", key |-> "k1", value |-> Undefined,
                prev |-> [exists |-> TRUE, obj |-> OmEmpty],
                emitted |-> <<>>, threw |-> FALSE, ret |-> Undefined]

OmOff ==
  /\ om_data = [exists |-> FALSE, obj |-> OmEmpty]
  /\ om_last = [op |-> "off", key |-> "k1", value |-> Undefined,
                prev |-> [exists |-> FALSE, obj |-> OmEmpty],
                emitted |-> <<>>, threw |-> FALSE, ret |-> Undefined]

\* get(key): model.get(path.key)
OmGet(data, key) == IF data.exists THEN data.obj[key] ELSE Undefined

\* set(key, value)
OmSet(key, value) ==
  LET oldVal == OmGet(om_data, key)
  IN IF value = Undefined
       THEN /\ om_data' = om_data
            /\ om_last' = OmCall("set", key, value, <<>>, TRUE, Undefined)
       ELSE IF oldVal # Undefined /\ oldVal = value
         THEN /\ om_data' = om_data
              /\ om_last' = OmCall("set", key, value, <<>>, FALSE, Undefined)
         ELSE /\ om_data' = [exists |-> TRUE, obj |-> [om_data.obj EXCEPT ![key] = value]]
              /\ om_last' = OmCall("set", key, value, <<>>, FALSE, oldVal)

\* delete(key): model.del(path)
OmDelete(key) ==
  /\ om_data' = [exists |-> FALSE, obj |-> OmEmpty]
  /\ om_last' = OmCall("delete", key, Undefined, <<>>, FALSE,
                       IF om_data.exists THEN TheObject ELSE Undefined)

\* keys(): Object.keys(model.get(path)) throws when the path holds nothing
OmKeysCall ==
  /\ om_data' = om_data
  /\ om_last' = OmCall("keys", "k1", Undefined, <<>>, ~om_data.exists, Undefined)

\* size: Object.keys(model.get(path)).length
OmSize ==
  /\ om_data' = om_data
  /\ om_last' = OmCall("size", "k1", Undefined, <<>>, ~om_data.exists, Undefined)

(***************************************************************************)
(* RacerVector of racervector.ts.  Its constructor registers one listener  *)
(* on the model, which only logs; _length is assigned in the constructor   *)
(* alone.                                                                  *)
(*   rw_vec   array, the values at the vector's path in the model;         *)
(*            length, the field _length                                    *)
(*   rw_last  the last call: its name, the values it was given and the     *)
(*            array before it                                              *)
(***************************************************************************)
RwCall(op, values) == [op |-> op, values |-> values, prev |-> rw_vec.array]

\* new RacerVector(model, path)
RwInit ==
  /\ rw_vec = [array |-> <<>>, length |-> 0]
  /\ rw_last = [op |-> "none", values |-> <<>>, prev |-> <<>>]

RwOff ==
  /\ rw_vec = [array |-> <<>>, length |-> 0]
  /\ rw_last = [op |-> "off", values |-> <<>>, prev |-> <<>>]

\* isEmpty
RwIsEmpty(v) == v.length = 0

\* a mutator call that leaves the array as array
RwMutated(op, values, array) ==
  /\ Len(array) <= MaxLen
  /\ rw_vec' = [rw_vec EXCEPT !.array = array]
  /\ rw_last' = RwCall(op, values)

\* pushBack(value): model.push(path, value)
RwPushBack(value) == RwMutated("pushBack", <<value>>, Append(rw_vec.array, value))

\* popBack(): model.pop(path)
RwPopBack ==
  /\ rw_vec.array # <<>>
  /\ RwMutated("popBack", <<>>, SpliceOut(rw_vec.array, Len(rw_vec.array) - 1, 1))

\* insert(index, value): model.insert(path, index, [value])
RwInsert(index, value) ==
  /\ index \in 0..Len(rw_vec.array)
  /\ RwMutated("insert", <<value>>, SpliceIn(rw_vec.array, index, <<value>>))

\* removeAt(index): model.remove(path, index)
RwRemoveAt(index) ==
  /\ index \in 0..Len(rw_vec.array) - 1
  /\ RwMutated("removeAt", <<>>, SpliceOut(rw_vec.array, index, 1))

\* pushAll(values): model.insert(path, this._length, values)
RwPushAll(values) ==
  /\ values # <<>>
  /\ RwMutated("pushAll", values, SpliceIn(rw_vec.array, rw_vec.length, values))

\* removeRange(startIndex, endIndex)
RwRemoveRange(startIndex, endIndex) ==
  /\ startIndex \in 0..Len(rw_vec.array) - 1
  /\ endIndex \in startIndex + 1..Len(rw_vec.array)
  /\ RwMutated("removeRange", <<>>,
               SpliceOut(rw_vec.array, startIndex, endIndex - startIndex))

\* clear(): model.remove(path, 0, this._length)
RwClear ==
  RwMutated("clear", <<>>, SpliceOut(rw_vec.array, 0, rw_vec.length))

(***************************************************************************)
(* ObservableVector.link / unlink / dispose (observablevector.ts).  A child *)
(* vector and a parent vector; once linked the child reads from and writes *)
(* to the parent and re-emits the parent's `changed` events.               *)
(*   lk_child   the child: array, its own backing store; parent, whether   *)
(*              _parent is set; isDisposed; slots, whether the listeners   *)
(*              connected to child.changed at construction are still       *)
(*              connected; forward, whether parent.changed is connected    *)
(*              to child._forwardSignal                                    *)
(*   lk_parent  the backing store of the parent (never linked itself)      *)
(*   lk_last    the last call: op; on, the object it was made on; the      *)
(*              contents and flags before it; emitted / parentEmitted,     *)
(*              the events emitted on child.changed and on parent.changed; *)
(*              received, the events the listeners connected to            *)
(*              child.changed at construction were handed                  *)
(***************************************************************************)
LkNoLast ==
  [op |-> "none", on |-> "none", child |-> <<>>, parent |-> <<>>,
   linked |-> FALSE, disposed |-> FALSE, emitted |-> <<>>,
   parentEmitted |-> <<>>, received |-> <<>>]

LkInit ==
  /\ lk_child \in [array : SeqsUpTo(OvValues, MaxLinkLen), parent : {FALSE},
                   isDisposed : {FALSE}, slots : {TRUE}, forward : {FALSE}]
  /\ lk_parent \in SeqsUpTo(OvValues, MaxLinkLen)
  /\ lk_last = LkNoLast

LkOff ==
  /\ lk_child = [array |-> <<>>, parent |-> FALSE, isDisposed |-> FALSE,
                 slots |-> FALSE, forward |-> FALSE]
  /\ lk_parent = <<>>
  /\ lk_last = LkNoLast

\* what the child's length, at and iter read: the parent's store when linked
LkContents == IF lk_child.parent THEN lk_parent ELSE lk_child.array

\* the branch `if (!this._parent)` of each mutator: the contents after it
\* and the events it emits
OvSetBody(items, index, value) ==
  [items |-> SetAt(items, index, value),
   emitted |-> <<ChangedArgs("set", index, index,
                             <<VectorAt(items, index)>>, <<value>>)>>]

OvPushBackBody(items, value) ==
  [items |-> Append(items, value),
   emitted |-> <<ChangedArgs("add", -1, Len(items), <<>>, <<value>>)>>]

OvPopBackBody(items) ==
  [items |-> VectorRemoveAt(items, Len(items) - 1),
   emitted |-> <<ChangedArgs("remove",
                             Len(VectorRemoveAt(items, Len(items) - 1)), -1,
                             <<VectorAt(items, Len(items) - 1)>>, <<>>)>>]

OvInsertBody(items, index, value) ==
  [items |-> VectorInsert(items, index, value),
   emitted |-> <<ChangedArgs("add", -1, index, <<>>, <<value>>)>>]

OvRemoveBody(items, value) ==
  [items |-> OvRemoveAtBody(items, IndexOf(items, value)).items,
   emitted |-> OvRemoveAtBody(items, IndexOf(items, value)).emitted]

OvClearBody(items) ==
  [items |-> <<>>,
   emitted |-> <<ChangedArgs("remove", 0, 0, items, <<>>)>>]

OvMoveBody(items, fromIndex, toIndex) ==
  LET value == VectorAt(items, fromIndex)
      removed == VectorRemoveAt(items, fromIndex)
  IN [items |-> IF toIndex < fromIndex
                  THEN VectorInsert(removed, toIndex - 1, value)
                  ELSE VectorInsert(removed, toIndex, value),
      emitted |-> <<ChangedArgs("move", fromIndex, toIndex, <<value>>, <<value>>)>>]

OvPushAllBody(items, values) ==
  [items |-> items \o values,
   emitted |-> <<ChangedArgs("add", -1, Len(items), <<>>, values)>>]

OvInsertAllBody(items, index, values) ==
  [items |-> OvInsertEach(items, index, values),
   emitted |-> <<ChangedArgs("add", -1, index, <<>>, values)>>]

OvRemoveRangeBody(items, startIndex, endIndex) ==
  [items |-> OvRemoveEach(items, startIndex, endIndex - startIndex).items,
   emitted |-> <<ChangedArgs("remove", startIndex, -1,
                   OvRemoveEach(items, startIndex, endIndex - startIndex).oldValues,
                   <<>>)>>]

LkCall(op, on, emitted, parentEmitted, received) ==
  [op |-> op, on |-> on, child |-> LkContents, parent |-> lk_parent,
   linked |-> lk_child.parent, disposed |-> lk_child.isDisposed,
   emitted |-> emitted, parentEmitted |-> parentEmitted, received |-> received]

\* the store a mutator called on `on` works on: a linked child hands the
\* call to its parent
LkTarget(on) ==
  IF on = "parent" \/ lk_child.parent THEN lk_parent ELSE lk_child.array

\* a _forwardSignal that emits nothing on the child
ForwardSignalDropped(emitted) == <<>>

\* _forwardSignal: an event of the parent is emitted again on the child
\* while parent.changed is connected to it
ForwardSignal(emitted) == IF lk_child.forward THEN emitted ELSE <<>>

\* what the listeners connected to child.changed at construction are handed
LkReceived(emitted) == IF lk_child.slots THEN emitted ELSE <<>>

\* a mutator called on the child or on the parent, r being its effect on
\* the store it works on
LkMutate(op, on, r) ==
  /\ Len(r.items) <= MaxLinkLen
  /\ IF on = "parent" \/ lk_child.parent
       THEN /\ lk_parent' = r.items
            /\ lk_last' = LkCall(op, on, ForwardSignal(r.emitted), r.emitted,
                                 LkReceived(ForwardSignal(r.emitted)))
            /\ UNCHANGED lk_child
       ELSE /\ lk_child' = [lk_child EXCEPT !.array = r.items]
            /\ lk_last' = LkCall(op, on, r.emitted, <<>>, LkReceived(r.emitted))
            /\ UNCHANGED lk_parent

LkSet(on, index, value) ==
  /\ index \in 0..Len(LkTarget(on)) - 1
  /\ LkMutate("set", on, OvSetBody(LkTarget(on), index, value))

LkPushBack(on, value) ==
  LkMutate("pushBack", on, OvPushBackBody(LkTarget(on), value))

LkPopBack(on) ==
  LkMutate("popBack", on, OvPopBackBody(LkTarget(on)))

LkInsert(on, index, value) ==
  LkMutate("insert", on, OvInsertBody(LkTarget(on), index, value))

LkRemove(on, value) ==
  LkMutate("remove", on, OvRemoveBody(LkTarget(on), value))

LkRemoveAt(on, index) ==
  LkMutate("removeAt", on, OvRemoveAtBody(LkTarget(on), index))

LkClear(on) ==
  LkMutate("clear", on, OvClearBody(LkTarget(on)))

LkMove(on, fromIndex, toIndex) ==
  /\ fromIndex \in 0..Len(LkTarget(on)) - 1
  /\ toIndex \in 0..Len(LkTarget(on)) - 1
  /\ LkMutate("move", on, OvMoveBody(LkTarget(on), fromIndex, toIndex))

LkPushAll(on, values) ==
  LkMutate("pushAll", on, OvPushAllBody(LkTarget(on), values))

LkInsertAll(on, index, values) ==
  LkMutate("insertAll", on, OvInsertAllBody(LkTarget(on), index, values))

LkRemoveRange(on, startIndex, endIndex) ==
  /\ startIndex \in 0..Len(LkTarget(on))
  /\ endIndex \in startIndex..Len(LkTarget(on))
  /\ LkMutate("removeRange", on,
              OvRemoveRangeBody(LkTarget(on), startIndex, endIndex))

\* one step of a loop of link: a mutator of the child applied to r
LkThen(r, step) ==
  [items |-> step.items, emitted |-> r.emitted \o step.emitted]

\* for (i = 0; i < min; i++) if (vec.at(i) !== this.at(i)) this.set(i, vec.at(i))
RECURSIVE LinkSets(_, _, _, _)
LinkSets(r, vec, i, min) ==
  IF i >= min
    THEN r
    ELSE LinkSets(IF VectorAt(vec, i) # VectorAt(r.items, i)
                    THEN LkThen(r, OvSetBody(r.items, i, VectorAt(vec, i)))
                    ELSE r,
                  vec, i + 1, min)

\* a link that leaves the surplus elements of the child in place
LinkNoPops(r, min) == r

\* while (this.length > min) this.popBack()
RECURSIVE LinkPops(_, _)
LinkPops(r, min) ==
  IF Len(r.items) > min
    THEN LinkPops(LkThen(r, OvPopBackBody(r.items)), min)
    ELSE r

\* for (i = min; i < vec.length; i++) this.pushBack(vec.at(i))
RECURSIVE LinkPushes(_, _, _)
LinkPushes(r, vec, i) ==
  IF i < Len(vec)
    THEN LinkPushes(LkThen(r, OvPushBackBody(r.items, VectorAt(vec, i))), vec, i + 1)
    ELSE r

\* the synchronisation of link(vec), run on the contents the child reads
LinkBody(items, vec) ==
  LET min == IF Len(vec) <= Len(items) THEN Len(vec) ELSE Len(items)
      sets == LinkSets([items |-> items, emitted |-> <<>>], vec, 0, min)
  IN IF Len(vec) < Len(items)
       THEN LinkPops(sets, min)
       ELSE IF Len(items) < Len(vec)
              THEN LinkPushes(sets, vec, min)
              ELSE sets

\* child.link(parent)
LkLink ==
  LET r == LinkBody(LkContents, lk_parent)
  IN /\ lk_child' = [lk_child EXCEPT !.array = <<>>, !.parent = TRUE,
                                     !.forward = TRUE]
     /\ lk_last' = LkCall("link", "child", r.emitted, <<>>, LkReceived(r.emitted))
     /\ UNCHANGED lk_parent

\* an unlink that copies the contents but leaves parent.changed connected
\* to child._forwardSignal
LkUnlinkStaysConnected ==
  /\ IF lk_child.parent
       THEN lk_child' = [lk_child EXCEPT !.array = lk_child.array \o lk_parent,
                                         !.parent = FALSE]
       ELSE UNCHANGED lk_child
  /\ lk_last' = LkCall("unlink", "child", <<>>, <<>>, <<>>)
  /\ UNCHANGED lk_parent

\* child.unlink()
LkUnlink ==
  /\ IF lk_child.parent
       THEN lk_child' = [lk_child EXCEPT !.array = lk_child.array \o lk_parent,
                                         !.parent = FALSE, !.forward = FALSE]
       ELSE UNCHANGED lk_child
  /\ lk_last' = LkCall("unlink", "child", <<>>, <<>>, <<>>)
  /\ UNCHANGED lk_parent

\* child.dispose(): clearSignalData(this) removes every connection of
\* which the child is the sender or the receiver, then this.clear() runs
LkDispose ==
  /\ IF lk_child.isDisposed
       THEN /\ lk_last' = LkCall("dispose", "child", <<>>, <<>>, <<>>)
            /\ UNCHANGED <<lk_child, lk_parent>>
       ELSE LET r == OvClearBody(LkContents)
            IN IF lk_child.parent
                 THEN /\ lk_child' = [lk_child EXCEPT !.isDisposed = TRUE,
                                        !.slots = FALSE, !.forward = FALSE]
                      /\ lk_parent' = r.items
                      /\ lk_last' = LkCall("dispose", "child", <<>>, r.emitted, <<>>)
                 ELSE /\ lk_child' = [lk_child EXCEPT !.isDisposed = TRUE,
                                        !.slots = FALSE, !.forward = FALSE,
                                        !.array = r.items]
                      /\ lk_last' = LkCall("dispose", "child", r.emitted, <<>>, <<>>)
                      /\ UNCHANGED lk_parent

(***************************************************************************)
(* The signal-only ObservableString of observablevector.ts: a text whose   *)
(* `changed` signal carries no arguments.                                  *)
(*   st_str   text; isDisposed; slots, whether the listeners connected to  *)
(*            `changed` after construction are still connected             *)
(*   st_last  the last call: op; text and isDisposed before it; emitted,   *)
(*            the number of emissions of `changed` during it; received,    *)
(*            how many of them the listeners were handed                   *)
(***************************************************************************)
StNoLast ==
  [op |-> "none", text |-> <<>>, disposed |-> FALSE, emitted |-> 0, received |-> 0]

StInit ==
  /\ st_str \in [text : Strings, isDisposed : {FALSE}, slots : {TRUE}]
  /\ st_last = StNoLast

StOff ==
  /\ st_str = [text |-> <<>>, isDisposed |-> FALSE, slots |-> FALSE]
  /\ st_last = StNoLast

StCall(op, emitted, received) ==
  [op |-> op, text |-> st_str.text, disposed |-> st_str.isDisposed,
   emitted |-> emitted, received |-> received]

\* this.changed.emit(void 0): the connected listeners are handed the event
StEmit(slots) == IF slots THEN 1 ELSE 0

\* setText(value)
StSetText(value) ==
  /\ st_str' = [st_str EXCEPT !.text = value]
  /\ st_last' = StCall("setText", 1, StEmit(st_str.slots))

\* clear()
StClear ==
  /\ st_str' = [st_str EXCEPT !.text = <<>>]
  /\ st_last' = StCall("clear", 1, StEmit(st_str.slots))

\* dispose(): this.clear() runs, and emits, before clearSignalData(this)
StDispose ==
  IF st_str.isDisposed
    THEN /\ st_last' = StCall("dispose", 0, 0)
         /\ UNCHANGED st_str
    ELSE /\ st_str' = [text |-> <<>>, isDisposed |-> TRUE, slots |-> FALSE]
         /\ st_last' = StCall("dispose", 1, StEmit(st_str.slots))

(***************************************************************************)
(* Specifications.                                                         *)
(***************************************************************************)
InitGv == GvInit /\ RsOff /\ NbOff /\ RvOff /\ HOff /\ SsOff /\ GdOff /\ OvOff /\ RcOff /\ RmOff /\ OmOff /\ RwOff /\ LkOff /\ StOff

NextGv ==
  \/ \E i \in 0..MaxLen, v \in Entries : GvSet(i, v) /\ UNCHANGED GvOthers
  \/ \E v \in Entries : GvPushBack(v) /\ UNCHANGED GvOthers
  \/ \E i \in 0..MaxLen, v \in Entries : GvInsert(i, v) /\ UNCHANGED GvOthers
  \/ \E i \in 0..MaxLen : GvRemoveAt(i) /\ UNCHANGED GvOthers
  \/ \E i \in 0..MaxLen, j \in JSONs : GvRemoteAdded(i, j) /\ UNCHANGED GvOthers
  \/ \E i \in 0..MaxLen : GvRemoteRemoved(i) /\ UNCHANGED GvOthers
  \/ \E i \in 0..MaxLen, j \in JSONs : GvRemoteSet(i, j) /\ UNCHANGED GvOthers

SpecGv == InitGv /\ [][NextGv]_vars

InitRs == GvOff /\ RsInit /\ NbOff /\ RvOff /\ HOff /\ SsOff /\ GdOff /\ OvOff /\ RcOff /\ RmOff /\ OmOff /\ RwOff /\ LkOff /\ StOff

NextRs ==
  \/ RsRegisterString /\ UNCHANGED RsOthers
  \/ \E v \in Strings : RsSetText(v) /\ UNCHANGED RsOthers
  \/ \E i \in 0..MaxText, ch \in Chars : RsRemoteInserted(i, ch) /\ UNCHANGED RsOthers
  \/ \E i \in 0..MaxText : RsRemoteDeleted(i) /\ UNCHANGED RsOthers

SpecRs == InitRs /\ [][NextRs]_vars

InitNb == GvOff /\ RsOff /\ NbInit /\ RvOff /\ HOff /\ SsOff /\ GdOff /\ OvOff /\ RcOff /\ RmOff /\ OmOff /\ RwOff /\ LkOff /\ StOff

NextNb ==
  \/ \E c \in Clients, cell \in CellModels : NbPushBack(c, cell) /\ UNCHANGED NbOthers
  \/ \E c \in Clients : NbOnValuesAdded(c) /\ UNCHANGED NbOthers

SpecNb == InitNb /\ [][NextNb]_vars

InitRv == GvOff /\ RsOff /\ NbOff /\ RvInit /\ HOff /\ SsOff /\ GdOff /\ OvOff /\ RcOff /\ RmOff /\ OmOff /\ RwOff /\ LkOff /\ StOff

NextRv ==
  \/ \E c \in Clients : RvRegisterVector(c) /\ UNCHANGED RvOthers
  \/ \E c \in Clients, v \in Texts : RvPushBack(c, v) /\ UNCHANGED RvOthers
  \/ \E c \in Clients : RvOnValuesAdded(c) /\ UNCHANGED RvOthers

SpecRv == InitRv /\ [][NextRv]_vars

InitH == GvOff /\ RsOff /\ NbOff /\ RvOff /\ HInit /\ SsOff /\ GdOff /\ OvOff /\ RcOff /\ RmOff /\ OmOff /\ RwOff /\ LkOff /\ StOff

NextH ==
  \/ HCreateResolved /\ UNCHANGED HOthers
  \/ HCreateRejected /\ UNCHANGED HOthers
  \/ HLoadResolved /\ UNCHANGED HOthers
  \/ HLoadRejected /\ UNCHANGED HOthers
  \/ \E t \in HStrings : HCreateString(t) /\ UNCHANGED HOthers
  \/ \E l \in HVectors : HCreateVector(l) /\ UNCHANGED HOthers
  \/ DmRegisterCollaborative /\ UNCHANGED HOthers
  \/ CbRegisterCollaborative /\ UNCHANGED HOthers
  \/ HRunCtor /\ UNCHANGED HOthers
  \/ DmThen /\ UNCHANGED HOthers
  \/ CbThen /\ UNCHANGED HOthers

SpecH == InitH /\ [][NextH]_vars

InitSs == GvOff /\ RsOff /\ NbOff /\ RvOff /\ HOff /\ SsInit /\ GdOff /\ OvOff /\ RcOff /\ RmOff /\ OmOff /\ RwOff /\ LkOff /\ StOff

NextSs ==
  \/ \E v \in SeqsUpTo(Chars, 1) : SsSetText(v) /\ UNCHANGED SsOthers
  \/ \E i \in 0..MaxText, ch \in Chars : SsInsert(i, <<ch>>) /\ UNCHANGED SsOthers
  \/ \E i \in 0..MaxText, j \in 0..MaxText : SsRemove(i, j) /\ UNCHANGED SsOthers
  \/ SsConnected /\ UNCHANGED SsOthers
  \/ SsReconnecting /\ UNCHANGED SsOthers

SpecSs == InitSs /\ [][NextSs]_vars

InitGd == GvOff /\ RsOff /\ NbOff /\ RvOff /\ HOff /\ SsOff /\ GdInit /\ OvOff /\ RcOff /\ RmOff /\ OmOff /\ RwOff /\ LkOff /\ StOff

NextGd ==
  \/ \E i \in 0..MaxLen, v \in Entries : GdVectorSet(i, v) /\ UNCHANGED GdOthers
  \/ \E v \in Entries : GdVectorPushBack(v) /\ UNCHANGED GdOthers
  \/ GdVectorDispose /\ UNCHANGED GdOthers
  \/ \E t \in SeqsUpTo(Chars, 1) : GdStringSetText(t) /\ UNCHANGED GdOthers
  \/ \E i \in 0..MaxText, ch \in Chars : GdStringInsert(i, <<ch>>) /\ UNCHANGED GdOthers
  \/ \E i \in 0..MaxText, j \in 0..MaxText : GdStringRemove(i, j) /\ UNCHANGED GdOthers
  \/ GdStringDispose /\ UNCHANGED GdOthers
  \/ \E i \in 0..MaxLen, j \in JSONs : GdRemoteAdded(i, j) /\ UNCHANGED GdOthers
  \/ \E i \in 0..MaxLen : GdRemoteRemoved(i) /\ UNCHANGED GdOthers
  \/ \E i \in 0..MaxText, ch \in Chars : GdRemoteInserted(i, ch) /\ UNCHANGED GdOthers

SpecGd == InitGd /\ [][NextGd]_vars

InitOv == GvOff /\ RsOff /\ NbOff /\ RvOff /\ HOff /\ SsOff /\ GdOff /\ OvInit /\ RcOff /\ RmOff /\ OmOff /\ RwOff /\ LkOff /\ StOff

OvBatches == SeqsUpTo(OvValues, 2)

NextOv ==
  \/ \E i \in 0..MaxLen, v \in OvValues : OvSet(i, v) /\ UNCHANGED OvOthers
  \/ \E v \in OvValues : OvPushBack(v) /\ UNCHANGED OvOthers
  \/ OvPopBack /\ UNCHANGED OvOthers
  \/ \E i \in 0..MaxLen, v \in OvValues : OvInsert(i, v) /\ UNCHANGED OvOthers
  \/ \E i \in 0..MaxLen : (i < Len(ov_items) /\ OvRemoveAt(i)) /\ UNCHANGED OvOthers
  \/ \E v \in OvValues : OvRemove(v) /\ UNCHANGED OvOthers
  \/ OvClear /\ UNCHANGED OvOthers
  \/ \E i \in 0..MaxLen, j \in 0..MaxLen : OvMove(i, j) /\ UNCHANGED OvOthers
  \/ \E vs \in OvBatches : OvPushAll(vs) /\ UNCHANGED OvOthers
  \/ \E i \in 0..MaxLen, vs \in OvBatches : OvInsertAll(i, vs) /\ UNCHANGED OvOthers
  \/ \E i \in 0..MaxLen, j \in 0..MaxLen : OvRemoveRange(i, j) /\ UNCHANGED OvOthers

SpecOv == InitOv /\ [][NextOv]_vars

InitRc == GvOff /\ RsOff /\ NbOff /\ RvOff /\ HOff /\ SsOff /\ GdOff /\ OvOff /\ RcInit /\ RmOff /\ OmOff /\ RwOff /\ LkOff /\ StOff

RcBatches == SeqsUpTo(RcValues, 2)

NextRc ==
  \/ \E i \in 0..MaxRcLen, v \in RcValues : RcSet(i, v) /\ UNCHANGED RcOthers
  \/ \E v \in RcValues : RcPushBack(v) /\ UNCHANGED RcOthers
  \/ RcPopBack /\ UNCHANGED RcOthers
  \/ \E i \in 0..MaxRcLen, v \in RcValues : RcInsert(i, v) /\ UNCHANGED RcOthers
  \/ \E i \in 0..MaxRcLen : RcRemoveAt(i) /\ UNCHANGED RcOthers
  \/ RcClear /\ UNCHANGED RcOthers
  \/ \E i \in 0..MaxRcLen, j \in 0..MaxRcLen : RcMove(i, j) /\ UNCHANGED RcOthers
  \/ \E vs \in RcBatches : RcPushAll(vs) /\ UNCHANGED RcOthers
  \/ \E i \in 0..MaxRcLen, j \in 0..MaxRcLen : RcRemoveRange(i, j) /\ UNCHANGED RcOthers
  \/ \E i \in 0..MaxRcLen, vs \in RcBatches : RcInsertAll(i, vs) /\ UNCHANGED RcOthers
  \/ \E u \in BOOLEAN : RcBeginCompoundOperation(u) /\ UNCHANGED RcOthers
  \/ RcEndCompoundOperation /\ UNCHANGED RcOthers
  \/ RcUndo /\ UNCHANGED RcOthers
  \/ RcRedo /\ UNCHANGED RcOthers
  \/ RcClearUndo /\ UNCHANGED RcOthers

SpecRc == InitRc /\ [][NextRc]_vars

InitRm == GvOff /\ RsOff /\ NbOff /\ RvOff /\ HOff /\ SsOff /\ GdOff /\ OvOff /\ RcOff /\ RmInit /\ OmOff /\ RwOff /\ LkOff /\ StOff

NextRm ==
  \/ \E k \in RmKeys, v \in RmValues \cup {Undefined} : RmSet(k, v) /\ UNCHANGED RmOthers
  \/ \E k \in RmKeys : RmDelete(k) /\ UNCHANGED RmOthers
  \/ RmConstruct /\ UNCHANGED RmOthers

SpecRm == InitRm /\ [][NextRm]_vars

InitOm == GvOff /\ RsOff /\ NbOff /\ RvOff /\ HOff /\ SsOff /\ GdOff /\ OvOff /\ RcOff /\ RmOff /\ OmInit /\ RwOff /\ LkOff /\ StOff

NextOm ==
  \/ \E k \in OmKeySet, v \in OmValues \cup {Undefined} : OmSet(k, v) /\ UNCHANGED OmOthers
  \/ \E k \in OmKeySet : OmDelete(k) /\ UNCHANGED OmOthers
  \/ OmKeysCall /\ UNCHANGED OmOthers
  \/ OmSize /\ UNCHANGED OmOthers

SpecOm == InitOm /\ [][NextOm]_vars

InitRw == GvOff /\ RsOff /\ NbOff /\ RvOff /\ HOff /\ SsOff /\ GdOff /\ OvOff /\ RcOff /\ RmOff /\ OmOff /\ RwInit /\ LkOff /\ StOff

NextRw ==
  \/ \E v \in RcValues : RwPushBack(v) /\ UNCHANGED RwOthers
  \/ RwPopBack /\ UNCHANGED RwOthers
  \/ \E i \in 0..MaxLen, v \in RcValues : RwInsert(i, v) /\ UNCHANGED RwOthers
  \/ \E i \in 0..MaxLen : RwRemoveAt(i) /\ UNCHANGED RwOthers
  \/ \E vs \in RcBatches : RwPushAll(vs) /\ UNCHANGED RwOthers
  \/ \E i \in 0..MaxLen, j \in 0..MaxLen : RwRemoveRange(i, j) /\ UNCHANGED RwOthers
  \/ RwClear /\ UNCHANGED RwOthers

SpecRw == InitRw /\ [][NextRw]_vars

InitLk == GvOff /\ RsOff /\ NbOff /\ RvOff /\ HOff /\ SsOff /\ GdOff /\ OvOff /\ RcOff /\ RmOff /\ OmOff /\ RwOff /\ LkInit /\ StOff

NextLk ==
  /\ \/ \E on \in {"child", "parent"} :
          \/ \E i \in 0..MaxLinkLen, v \in OvValues : LkSet(on, i, v)
          \/ \E v \in OvValues : LkPushBack(on, v)
          \/ LkPopBack(on)
          \/ \E i \in 0..MaxLinkLen, v \in OvValues : LkInsert(on, i, v)
          \/ \E v \in OvValues : LkRemove(on, v)
          \/ \E i \in 0..MaxLinkLen : LkRemoveAt(on, i)
          \/ LkClear(on)
          \/ \E i, j \in 0..MaxLinkLen : LkMove(on, i, j)
          \/ \E vs \in OvBatches : LkPushAll(on, vs)
          \/ \E i \in 0..MaxLinkLen, vs \in OvBatches : LkInsertAll(on, i, vs)
          \/ \E i, j \in 0..MaxLinkLen : LkRemoveRange(on, i, j)
     \/ LkLink
     \/ LkUnlink
     \/ LkDispose
  /\ UNCHANGED LkOthers

SpecLk == InitLk /\ [][NextLk]_vars

InitSt == GvOff /\ RsOff /\ NbOff /\ RvOff /\ HOff /\ SsOff /\ GdOff /\ OvOff /\ RcOff /\ RmOff /\ OmOff /\ RwOff /\ LkOff /\ StInit

NextSt ==
  /\ \/ \E value \in Strings : StSetText(value)
     \/ StClear
     \/ StDispose
  /\ UNCHANGED StOthers

SpecSt == InitSt /\ [][NextSt]_vars

(***************************************************************************)
(* Claims.                                                                 *)
(***************************************************************************)
GvLocalCalls == {"set", "pushBack", "insert", "removeAt"}

\* C1: one local call of set, pushBack, insert or removeAt submits exactly one
\* operation to the remote list, and the listeners of `changed` receive exactly
\* one Change Event for that call.
C1_OneOpOneEvent ==
  gv_call \in GvLocalCalls => Len(gv_submitted) = 1 /\ Len(gv_emitted) = 1

\* C2: a remote-originated TEXT_INSERTED or TEXT_DELETED event makes the
\* registered string take the remote text with exactly one local change
\* notification, and no operation is submitted back to the remote string.
C2_RemoteEventNoEcho ==
  rs_origin = "remote" =>
    /\ rs_text = rs_collabStr
    /\ rs_notified = 1
    /\ rs_submitted = <<>>

NbQuiet == \A c \in Clients : nb_queue[c] = <<>>

\* C3: every local cells.pushBack causes exactly one push on the remote list;
\* once the events are delivered, the remote list and both cell lists are
\* longer by exactly the number of local pushBack calls.
C3_OnePushPerPushBack ==
  /\ nb_pushes = nb_userPushes
  /\ NbQuiet =>
       /\ Len(nb_list) = nb_len0["A"] + nb_userPushes
       /\ \A c \in Clients : Len(nb_cells[c]) = nb_len0[c] + nb_userPushes

RvQuiet == \A c \in Clients : rv_queue[c] = <<>>

Count(s, v) == Cardinality({i \in 1..Len(s) : s[i] = v})

\* C4: with both clients registered, after any sequence of pushBack calls and
\* the delivery of all events, both vectors and the remote list hold the same
\* sequence, each pushed value once per pushBack call.
C4_Converge ==
  (rv_clean /\ RvQuiet /\ \A c \in Clients : rv_registered[c]) =>
    /\ \A c \in Clients : rv_vec[c] = rv_collabVec
    /\ \A v \in Texts : Count(rv_collabVec, v) = Count(rv_calls, v)

\* C5: when the registration of registerVector(vec) has run, the local vector
\* and the remote list hold the same values.
C5_RegisteredInSync ==
  rv_last.op = "register" => rv_vec[rv_last.c] = rv_collabVec

\* C6: constructing a GoogleRealtimeString or GoogleRealtimeVector for a key
\* creates the remote object from the serialized initial value when the root
\* holds none under the key, and otherwise uses the existing object unmodified;
\* in both cases the bridge's contents are the remote object's contents.
C6_CtorCreatesOrReuses ==
  h_last.op = "ctor" =>
    LET obj == h_root[h_last.key]
    IN /\ obj.exists
       /\ IF h_last.existed
            THEN obj.val = h_last.before
            ELSE IF h_last.key = "collabStr"
                   THEN obj.val = h_last.init
                   ELSE /\ Len(obj.val) = Len(h_last.init)
                        /\ \A i \in 1..Len(obj.val) :
                             obj.val[i] = [text |-> h_last.init[i].text]
       /\ IF h_last.key = "collabStr"
            THEN GRStringText(h_root, h_last.key) = obj.val
            ELSE toJSONArray(GRVectorItems(h_root, h_last.key)) = obj.val

\* a GoogleRealtimeString was constructed on a key that held other text
C6_Witness ==
  /\ h_last.op = "ctor"
  /\ h_last.key = "collabStr"
  /\ h_last.existed
  /\ h_last.before = <<"b">>
  /\ h_last.init = <<"a">>

HDone == {h_done[i] : i \in 1..Len(h_done)}

HContainerOf(kind) ==
  IF kind = "String" THEN "GoogleRealtimeString" ELSE "GoogleRealtimeVector"

\* C7: createString / createVector calls made before `ready` resolves do not
\* touch the remote model until it resolves; once it resolves every call is
\* carried out exactly once, in the order issued, and its promise is resolved
\* with its container.
C7_QueuedUntilReady ==
  /\ h_ready = "pending" => h_root = h_root0 /\ h_done = <<>>
  /\ \A i \in 1..Len(h_done) : h_done[i] = i
  /\ (h_ready = "resolved" /\ HIdle) => Len(h_done) = Len(h_calls)
  /\ \A n \in 1..Len(h_calls) :
       /\ h_calls[n].promise = "resolved" <=> n \in HDone
       /\ h_calls[n].promise = "resolved" =>
            h_calls[n].container = HContainerOf(h_calls[n].kind)
       /\ h_calls[n].promise = "pending" => h_calls[n].container = "none"

\* two calls issued before `ready` resolved have both been carried out
C7_Witness ==
  /\ h_ready = "resolved"
  /\ Len(h_done) >= 2
  /\ h_calls[1].early
  /\ h_calls[2].early
  /\ h_calls[1].kind # h_calls[2].kind

HFailed == h_stage \in {"createFailed", "loadFailed"}

\* C9: if creating or loading the remote document fails, `ready` is rejected,
\* and a model that called registerCollaborative keeps its original container,
\* neither replaced nor disposed, contents unchanged.
C9_FailureRejectsReady ==
  HFailed =>
    /\ h_ready = "rejected"
    /\ dm_text = dm_text0
    /\ cb_entries = cb_entries0

\* registerCollaborative was called by this model while `ready` was pending
HRegisteredEarly(caller) ==
  \E n \in 1..Len(h_calls) : h_calls[n].caller = caller /\ h_calls[n].early

\* C10: once the handler's creation/loading has finished, successfully or not,
\* and its callbacks have run, the promise of a registerCollaborative call made
\* before that is settled; it is resolved only with the realtime container
\* installed.
C10_RegisterSettles ==
  /\ ((h_stage = "loaded" \/ HFailed) /\ HIdle) =>
       /\ HRegisteredEarly("dm") => dm_promise # "pending"
       /\ HRegisteredEarly("cb") => cb_promise # "pending"
  /\ dm_promise = "resolved" => dm_text.kind = "GoogleRealtimeString"
  /\ cb_promise = "resolved" => cb_entries.kind = "GoogleRealtimeVector"

\* C8: an operation issued on a ShareString while the connection is
\* 'connecting' is not lost: once the connection is established the operations
\* submitted to the document are the operations issued, in the order issued.
C8_NothingLost ==
  ss_state = "connected" => ss_submitted = ss_issued

\* the serialized form of an initial value, as the remote object stores it
HSerialized(kind, init) ==
  IF kind = "String" THEN init ELSE [i \in 1..Len(init) |-> [text |-> init[i].text]]

\* the remote object of call n exists, and holds either what the document held
\* before the handler touched it or the seed of a call that was carried out
HReconciled(n) ==
  LET kind == h_calls[n].kind
      obj == h_root[HKeyOf(kind)]
  IN /\ obj.exists
     /\ IF h_root0[HKeyOf(kind)].exists
          THEN obj.val = h_root0[HKeyOf(kind)].val
          ELSE \E m \in HDone : /\ h_calls[m].kind = kind
                                /\ obj.val = HSerialized(kind, h_calls[m].init)

\* C11: `ready` settles at most once and keeps its outcome; whenever it is
\* resolved the handler holds the loaded model; a promise of createString /
\* createVector is resolved only when the remote object of its key exists in
\* the root with its initial content reconciled.
C11_ReadySettlesOnce ==
  /\ [][h_ready # "pending" => h_ready' = h_ready]_vars
  /\ [](h_ready = "resolved" => h_model = "model")
  /\ [](\A n \in 1..Len(h_calls) :
          h_calls[n].promise = "resolved" => h_ready = "resolved" /\ HReconciled(n))

\* a handler that created its document resolved a createVector promise after
\* seeding the remote list
C11_Witness ==
  /\ h_creator
  /\ h_ready = "resolved"
  /\ \E n \in 1..Len(h_calls) :
       /\ h_calls[n].kind = "Vector"
       /\ h_calls[n].promise = "resolved"
       /\ h_calls[n].early
       /\ h_root["collabVec"].val = <<[text |-> "x"]>>

\* C12: after dispose() of a GoogleRealtimeVector or GoogleRealtimeString,
\* events of the remote object produce no Change Event for the former
\* listeners and mutator calls on the bridge submit no operation; dispose()
\* leaves the remote contents unchanged, and a second dispose() changes nothing.
C12_DisposedNoSync ==
  /\ gd_last.disposed => gd_last.emitted = <<>> /\ gd_last.submitted = <<>>
  /\ (gd_last.op = "dispose" /\ gd_last.bridge = "vector") =>
       /\ gd_vector.vec = gd_last.prev.vec
       /\ gd_last.disposed => gd_vector = gd_last.prev
  /\ (gd_last.op = "dispose" /\ gd_last.bridge = "string") =>
       /\ gd_string.str = gd_last.prev.str
       /\ gd_last.disposed => gd_string = gd_last.prev

OvMutators == {"set", "pushBack", "popBack", "insert", "removeAt", "move",
               "clear", "pushAll", "insertAll", "removeRange"}

\* the indices of the last call were in range, and popBack had a value to pop
OvInRange ==
  /\ ov_last.op \in {"insert", "insertAll"} => ov_last.index <= Len(ov_last.before)
  /\ ov_last.op = "popBack" => ov_last.before # <<>>

\* the values the last call removed from the vector
OvRemoved ==
  LET b == ov_last.before
  IN CASE ov_last.op \in {"set", "removeAt", "move"} -> <<b[ov_last.index + 1]>>
       [] ov_last.op = "popBack" -> <<b[Len(b)]>>
       [] ov_last.op = "clear" -> b
       [] ov_last.op = "removeRange" -> SubSeq(b, ov_last.index + 1, ov_last.index2)
       [] OTHER -> <<>>

\* the values the last call added to the vector
OvAdded ==
  CASE ov_last.op \in {"set", "pushBack", "insert"} -> <<ov_last.value>>
    [] ov_last.op = "move" -> <<ov_last.before[ov_last.index + 1]>>
    [] ov_last.op \in {"pushAll", "insertAll"} -> ov_last.values
    [] OTHER -> <<>>

\* C13: on an unlinked ObservableVector every mutator call with in-range
\* indices emits exactly one `changed` event, after the structural change,
\* whose oldValues / newValues are the values the call removed / added (one
\* event for a batch); pushBack appends and removeAt(i) deletes element i, so
\* pushBack(a), pushBack(b), removeAt(0) leaves [b] with oldValues [a].
C13_OneEventPerCall ==
  (ov_last.op \in OvMutators /\ OvInRange) =>
    /\ Len(ov_last.emitted) = 1
    /\ ov_last.seen[1] = ov_items
    /\ ov_last.emitted[1].oldValues = OvRemoved
    /\ ov_last.emitted[1].newValues = OvAdded
    /\ Len(ov_items) = Len(ov_last.before) - Len(OvRemoved) + Len(OvAdded)
    /\ ov_last.op = "pushBack" =>
         /\ ov_items = Append(ov_last.before, ov_last.value)
         /\ ov_last.emitted[1].type = "add"
    /\ ov_last.op = "removeAt" =>
         /\ ov_items = RemoveAt(ov_last.before, ov_last.index)
         /\ ov_last.emitted[1].type = "remove"

\* removeAt(0) on [a, b] left [b] and reported the removal of a
C13_Witness ==
  /\ ov_last.op = "removeAt"
  /\ ov_last.index = 0
  /\ ov_last.before = <<"a", "b">>
  /\ ov_items = <<"b">>
  /\ ov_last.emitted[1].oldValues = <<"a">>

\* C14: remove(value) removes the first element identical to value and
\* returns its index; when no element matches it returns -1, leaves the
\* contents unchanged and emits no `changed` event.
C14_RemoveAbsentSilent ==
  ov_last.op = "remove" =>
    IF \E i \in 1..Len(ov_last.before) : ov_last.before[i] = ov_last.value
      THEN /\ ov_last.ret \in 0..Len(ov_last.before) - 1
           /\ ov_last.before[ov_last.ret + 1] = ov_last.value
           /\ \A j \in 1..ov_last.ret : ov_last.before[j] # ov_last.value
           /\ ov_items = RemoveAt(ov_last.before, ov_last.ret)
      ELSE /\ ov_last.ret = -1
           /\ ov_items = ov_last.before
           /\ ov_last.emitted = <<>>

\* C15: after move(fromIndex, toIndex) with both indices in range and
\* different, the moved value is at toIndex, the other elements keep their
\* relative order, the length is unchanged, and exactly one 'move' event is
\* emitted with oldIndex = fromIndex, newIndex = toIndex and the moved value
\* as oldValues and newValues.
C15_MoveLandsAtToIndex ==
  (ov_last.op = "move" /\ ov_last.index # ov_last.index2) =>
    LET value == ov_last.before[ov_last.index + 1]
    IN /\ Len(ov_items) = Len(ov_last.before)
       /\ ov_items[ov_last.index2 + 1] = value
       /\ RemoveAt(ov_items, ov_last.index2) = RemoveAt(ov_last.before, ov_last.index)
       /\ ov_last.emitted = <<ChangedArgs("move", ov_last.index, ov_last.index2,
                                         <<value>>, <<value>>)>>

\* C16: every 'add' event has oldIndex = -1 and every 'remove' event has
\* newIndex = -1, and the listed values are the contiguous run of elements
\* that starts at newIndex (add) or started at oldIndex (remove); checked for
\* the mutator calls with in-range indices.
C16_AddRemoveIndices ==
  (ov_last.op \in OvMutators /\ OvInRange) =>
  \A k \in 1..Len(ov_last.emitted) :
    LET e == ov_last.emitted[k]
    IN /\ e.type = "add" =>
            /\ e.oldIndex = -1
            /\ e.newIndex >= 0
            /\ e.newIndex + Len(e.newValues) <= Len(ov_items)
            /\ e.newValues = SubSeq(ov_items, e.newIndex + 1, e.newIndex + Len(e.newValues))
       /\ e.type = "remove" =>
            /\ e.newIndex = -1
            /\ e.oldIndex >= 0
            /\ e.oldIndex + Len(e.oldValues) <= Len(ov_last.before)
            /\ e.oldValues = SubSeq(ov_last.before, e.oldIndex + 1,
                                    e.oldIndex + Len(e.oldValues))

\* the values of a remote event, deserialized
GvDeserialized(values) == [k \in 1..Len(values) |-> Entry(values[k].text)]

\* C17: GoogleRealtimeVector forwards each event of the remote list as one
\* Change Event of the shape an Observable Sequence emits: VALUES_ADDED at i
\* as 'add' (newIndex i, oldIndex -1), VALUES_REMOVED at i as 'remove'
\* (oldIndex i, newIndex -1), VALUES_SET at i as 'set' (oldIndex = newIndex =
\* i), each with the deserialized values of the remote event.
C17_ForwardedShape ==
  gv_call = "remote" =>
    gv_emitted =
      CASE gv_event.type = "VALUES_ADDED" ->
             <<ChangedArgs("add", -1, gv_event.index, <<>>,
                           GvDeserialized(gv_event.values))>>
        [] gv_event.type = "VALUES_REMOVED" ->
             <<ChangedArgs("remove", gv_event.index, -1,
                           GvDeserialized(gv_event.values), <<>>)>>
        [] gv_event.type = "VALUES_SET" ->
             <<ChangedArgs("set", gv_event.index, gv_event.index,
                           GvDeserialized(gv_event.oldValues),
                           GvDeserialized(gv_event.newValues))>>

\* C18: for recorded mutations M1..Mn made on a RacerVector outside compound
\* operations, after the k-th undo() the contents equal those that held after
\* M1..M(n-k), and n undo() calls followed by n redo() calls restore the
\* contents that held after Mn.
C18_UndoRedoRoundTrip ==
  rc_plain.ok =>
    /\ rc_plain.r = 0 => rc_vec.array = rc_plain.snaps[rc_plain.n - rc_plain.k + 1]
    /\ (rc_plain.k = rc_plain.n /\ rc_plain.r = rc_plain.n) =>
         rc_vec.array = rc_plain.snaps[rc_plain.n + 1]

\* two mutations that changed the contents were undone and redone
C18_Witness ==
  /\ rc_plain.ok
  /\ rc_plain.n = 2
  /\ rc_plain.k = 2
  /\ rc_plain.r = 2
  /\ rc_plain.snaps[2] # <<>>
  /\ rc_plain.snaps[3] # rc_plain.snaps[2]

\* C19: a compound operation with k >= 1 recorded changes advances the undo
\* cursor by exactly one; a single following undo() reverts all its changes,
\* and canUndo is false afterwards if there was no earlier history.  With
\* k = 0 the cursor and the journal are unchanged.  The vector is well
\* formed when the compound operation begins.
C19_CompoundIsOneUnit ==
  rc_cmp.sound =>
    /\ (rc_cmp.phase = "closed" /\ rc_cmp.k >= 1) => rc_vec.index = rc_cmp.index0 + 1
    /\ (rc_cmp.phase = "closed" /\ rc_cmp.k = 0) =>
         /\ rc_vec.index = rc_cmp.index0
         /\ rc_vec.stack = rc_cmp.stack0
    /\ rc_cmp.phase = "undone" =>
         /\ rc_vec.array = rc_cmp.before
         /\ rc_vec.index = rc_cmp.index0
         /\ rc_cmp.index0 = -1 => ~RcCanUndo(rc_vec)

\* a compound operation of two changes on a fresh vector was undone
C19_Witness ==
  /\ rc_cmp.sound
  /\ rc_cmp.phase = "undone"
  /\ rc_cmp.k = 2
  /\ rc_cmp.index0 = -1
  /\ rc_cmp.after # rc_cmp.before

\* C20: after a compound operation that recorded two or more changes has
\* been undone, redo() re-applies the changes in their original order: the
\* contents after redo() equal those right after endCompoundOperation().
C20_RedoKeepsOrder ==
  (rc_cmp.sound /\ rc_cmp.phase = "redone" /\ rc_cmp.k >= 2) =>
    rc_vec.array = rc_cmp.after


\* the last call was an undo() with canUndo true or a redo() with canRedo
\* true, on a vector that was well formed
RcReplayed ==
  /\ rc_last.op \in {"undo", "redo"}
  /\ RcSound(rc_last.prev)
  /\ rc_last.op = "undo" => RcCanUndo(rc_last.prev)
  /\ rc_last.op = "redo" => RcCanRedo(rc_last.prev)

\* C21: the mutations undo() and redo() perform are not recorded in the
\* journal: across the call the number of batches in the stack is unchanged
\* and the cursor moves by exactly one, down for undo and up for redo, while
\* the listeners of `changed` receive the events of the replayed mutations.
C21_ReplayNotRecorded ==
  RcReplayed =>
    /\ Len(rc_vec.stack) = Len(rc_last.prev.stack)
    /\ rc_vec.index = rc_last.prev.index + (IF rc_last.op = "undo" THEN -1 ELSE 1)
    /\ rc_vec.array # rc_last.prev.array => rc_vec.emitted # <<>>

\* an undo() took back a recorded change and its listeners heard of it
C21_Witness ==
  /\ RcReplayed
  /\ rc_last.op = "undo"
  /\ rc_last.prev.array # <<>>
  /\ rc_vec.array # rc_last.prev.array
  /\ Len(rc_vec.emitted) >= 1

\* C22: undo() while canUndo is false and redo() while canRedo is false
\* change nothing: contents, journal and cursor are as before, no Change
\* Event is emitted and no error is raised (the call returns with the vector
\* still recording).
C22_RefusedIsNoOp ==
  /\ (rc_last.op = "undo" /\ ~RcCanUndo(rc_last.prev)) => rc_vec = rc_last.prev
  /\ (rc_last.op = "redo" /\ ~RcCanRedo(rc_last.prev)) => rc_vec = rc_last.prev

\* undo() was called on a vector that holds values and has nothing to undo
C22_Witness ==
  /\ rc_last.op = "undo"
  /\ ~RcCanUndo(rc_last.prev)
  /\ rc_last.prev.array # <<>>
  /\ rc_last.prev.stack # <<>>


\* C23: assigning a value equal to the current text performs no write to the
\* backing store and emits no Change Event (here for the `text` setter of
\* GoogleRealtimeString).
C23_SameTextNoWrite ==
  (gd_last.op = "setText" /\ gd_last.submitted[1].value = gd_last.prev.str) =>
    /\ gd_last.submitted = <<>>
    /\ gd_last.emitted = <<>>


\* C24: on a GoogleRealtimeString insert(index, text) with 0 <= index <=
\* length changes the text to old[0..index) + text + old[index..), and
\* remove(start, end) with 0 <= start <= end <= length deletes
\* old[start..end); each call results in one Change Event of type 'insert'
\* resp. 'remove' whose value is the inserted resp. removed substring.
C24_InsertRemoveByOffset ==
  LET old == gd_last.prev.str
      a == gd_last.args
  IN /\ (gd_last.op = "insert" /\ ~gd_last.disposed) =>
          /\ gd_string.str = SubSeq(old, 1, a[1]) \o a[2] \o SubSeq(old, a[1] + 1, Len(old))
          /\ Len(gd_last.emitted) = 1
          /\ gd_last.emitted[1].type = "insert"
          /\ gd_last.emitted[1].value = a[2]
     /\ (gd_last.op = "remove" /\ ~gd_last.disposed /\ a[1] < a[2]) =>
          /\ gd_string.str = SubSeq(old, 1, a[1]) \o SubSeq(old, a[2] + 1, Len(old))
          /\ Len(gd_last.emitted) = 1
          /\ gd_last.emitted[1].type = "remove"
          /\ gd_last.emitted[1].value = SubSeq(old, a[1] + 1, a[2])


\* C25: RacerMap.set(key, undefined) raises an error and leaves the map
\* unchanged, with no write to the model and no event; set(key, v) with v
\* deep-equal to the value stored under key is a no-op that performs no
\* write and emits no event.
C25_SetRefusals ==
  (rm_last.op = "set" /\ (rm_last.value = Undefined \/ rm_last.value = rm_last.prev[rm_last.key])) =>
    /\ rm_last.threw <=> rm_last.value = Undefined
    /\ rm_data = rm_last.prev
    /\ rm_last.writes = 0
    /\ rm_last.emitted = <<>>

\* set(key, v) was called on a key that already held v, a falsy value
C25_Witness ==
  /\ rm_last.op = "set"
  /\ rm_last.value \in RmFalsy
  /\ rm_last.value = rm_last.prev[rm_last.key]
  /\ ~rm_last.threw

\* C26: the one `changed` event of a write or deletion of a key has type
\* 'add' when the key was absent before, 'change' when it was present and
\* remains present, and 'remove' when the key is deleted, with oldValue and
\* newValue the previous and the new value, for every JSON value, 0, false,
\* the empty string and null included.
C26_ChangeTypeByPresence ==
  rm_last.writes = 1 =>
    /\ Len(rm_last.emitted) = 1
    /\ rm_last.emitted[1].key = rm_last.key
    /\ rm_last.emitted[1].oldValue = rm_last.prev[rm_last.key]
    /\ rm_last.emitted[1].newValue = rm_data[rm_last.key]
    /\ rm_last.emitted[1].type =
         IF rm_last.op = "delete" THEN "remove"
         ELSE IF rm_last.prev[rm_last.key] = Undefined THEN "add"
         ELSE "change"


\* C27: ObservableMap.set(key, value) that adds a key or changes the value
\* of a key emits exactly one `changed` event, before set returns, with
\* that key, oldValue the previous value (undefined for a new key) and
\* newValue the value.
C27_SetEmitsOnce ==
  (om_last.op = "set" /\ ~om_last.threw /\ om_data # om_last.prev) =>
    /\ Len(om_last.emitted) = 1
    /\ om_last.emitted[1].key = om_last.key
    /\ om_last.emitted[1].oldValue = OmGet(om_last.prev, om_last.key)
    /\ om_last.emitted[1].newValue = om_last.value

\* C28: ObservableMap.delete(key) removes only that key: every other key
\* keeps its value, the returned value is the value previously stored under
\* key, and keys(), size and get remain usable afterwards.
C28_DeleteOnlyThatKey ==
  /\ om_last.op = "delete" =>
       /\ \A k \in OmKeySet \ {om_last.key} : OmGet(om_data, k) = OmGet(om_last.prev, k)
       /\ OmGet(om_data, om_last.key) = Undefined
       /\ om_last.ret = OmGet(om_last.prev, om_last.key)
  /\ om_last.op \in {"keys", "size"} => ~om_last.threw


\* the last mutator call submitted an operation, which the document applied
SsApplied == ss_submitted # <<>> /\ Len(ss_submitted) = Len(ss_issued)

\* C29: for every operation applied to the document of a ShareString exactly
\* one Change Event is emitted: 'insert' with start the insertion index and
\* end = start + the length of the inserted text, 'remove' with start the
\* removal index and end = start + the length of the removed text, 'set'
\* with the new value, a set to the empty string included.
C29_EventDescribesOp ==
  LET op == ss_submitted[Len(ss_submitted)]
  IN (SsApplied /\ (op.kind = "oi" \/ op.text # <<>>)) =>
       /\ Len(ss_emitted) = 1
       /\ ss_emitted[1].value = op.text
       /\ op.kind = "oi" => ss_emitted[1].type = "set"
       /\ op.kind = "si" =>
            /\ ss_emitted[1].type = "insert"
            /\ ss_emitted[1].start = op.index
            /\ ss_emitted[1].end = op.index + Len(op.text)
       /\ op.kind = "sd" =>
            /\ ss_emitted[1].type = "remove"
            /\ ss_emitted[1].start = op.index
            /\ ss_emitted[1].end = op.index + Len(op.text)


\* C30: for the RacerVector of racervector.ts, after any sequence of
\* mutators `length` equals the number of elements stored at the vector's
\* path, isEmpty is true exactly when that number is 0, pushAll appends its
\* values after the current last element, and clear() leaves the stored
\* array empty.
C30_LengthTracksArray ==
  /\ rw_vec.length = Len(rw_vec.array)
  /\ RwIsEmpty(rw_vec) <=> rw_vec.array = <<>>
  /\ rw_last.op = "pushAll" => rw_vec.array = rw_last.prev \o rw_last.values
  /\ rw_last.op = "clear" => rw_vec.array = <<>>


\* C31: RacerVector.insertAll(index, values) with 0 <= index <= length
\* inserts the values, in order, at index, returns the new length and
\* results in one 'add' Change Event carrying all inserted values.
C31_InsertAllInserts ==
  rc_last.op = "insertAll" =>
    /\ rc_vec.array = SpliceIn(rc_last.prev.array, rc_last.index, rc_last.values)
    /\ rc_last.ret = Len(rc_vec.array)
    /\ Len(rc_vec.emitted) = 1
    /\ rc_vec.emitted[1].type = "add"
    /\ rc_vec.emitted[1].newValues = rc_last.values


\* C36: after any sequence of public calls on a RacerVector the cursor stays
\* within -1 .. stack.length - 1 whenever no compound operation is open, so
\* canUndo implies that a batch exists at the cursor.
C36_CursorInJournal ==
  ~rc_vec.inCompound =>
    /\ rc_vec.index >= -1
    /\ rc_vec.index <= Len(rc_vec.stack) - 1

\* C37: undo() and redo() leave the recorded batches unchanged: the order of
\* the changes inside a batch and each recorded change's type, indices and
\* values.
C37_ReplayKeepsBatches ==
  rc_last.op \in {"undo", "redo"} => rc_vec.stack = rc_last.prev.stack

\* the last call was a mutator of an ObservableVector (not link, unlink or
\* dispose)
LkMutator == lk_last.op \notin {"none", "link", "unlink", "dispose"}

\* C32: while the child is linked (and has not been disposed), a mutator
\* called on the child or on the parent leaves the child reading exactly the
\* parent's contents with its own store untouched, emits exactly one
\* `changed` event on the parent and exactly one, the same, on the child.
C32_LinkedMirrorsParent ==
  (LkMutator /\ lk_last.linked /\ ~lk_last.disposed) =>
    /\ lk_child.parent
    /\ LkContents = lk_parent
    /\ lk_child.array = <<>>
    /\ Len(lk_last.parentEmitted) = 1
    /\ Len(lk_last.emitted) = 1
    /\ lk_last.emitted = lk_last.parentEmitted
    /\ lk_last.received = lk_last.emitted

C32_Witness ==
  /\ lk_last.op = "pushAll"
  /\ lk_last.on = "child"
  /\ lk_last.linked
  /\ ~lk_last.disposed
  /\ lk_last.parent = <<>>
  /\ lk_parent = <<"a", "b">>
  /\ Len(lk_last.emitted) = 1

\* a listener's copy after one Change Event: 'set' replaces the values at
\* newIndex, 'add' inserts newValues at newIndex, 'remove' takes oldValues
\* out at oldIndex
ApplyChange(items, c) ==
  CASE c.type = "set" ->
         [i \in 1..Len(items) |->
            IF i - 1 \in c.newIndex..c.newIndex + Len(c.newValues) - 1
              THEN c.newValues[i - c.newIndex]
              ELSE items[i]]
    [] c.type = "add" -> SpliceIn(items, c.newIndex, c.newValues)
    [] c.type = "remove" ->
         SelectSeq([i \in 1..Len(items) |->
                      IF i - 1 \in c.oldIndex..c.oldIndex + Len(c.oldValues) - 1
                        THEN Undefined ELSE items[i]],
                   LAMBDA v : v # Undefined)
    [] OTHER -> items

RECURSIVE ApplyChanges(_, _)
ApplyChanges(items, changes) ==
  IF changes = <<>>
    THEN items
    ELSE ApplyChanges(ApplyChange(items, Head(changes)), Tail(changes))

\* C34: the events link(parent) emits on the child, applied in order to the
\* contents the child had before the call, give the parent's contents.
C34_LinkEventsReplay ==
  lk_last.op = "link" =>
    /\ ApplyChanges(lk_last.child, lk_last.emitted) = lk_last.parent
    /\ lk_parent = lk_last.parent
    /\ LkContents = lk_parent

C34_Witness ==
  /\ lk_last.op = "link"
  /\ ~lk_last.linked
  /\ lk_last.child = <<"a", "b">>
  /\ lk_last.parent = <<"b">>
  /\ Len(lk_last.emitted) = 2

\* C35: unlink() emits nothing, leaves the parent alone and leaves the child
\* unlinked with its own store holding what it read before the call (the
\* parent's contents when it was linked, its own when it was not); while
\* the child is not linked, a mutator called on the parent neither changes
\* what the child holds nor emits on the child, and a mutator called on the
\* child does not change the parent nor emit on it.
C35_UnlinkSeparates ==
  /\ lk_last.op = "unlink" =>
       /\ lk_last.emitted = <<>>
       /\ lk_last.parentEmitted = <<>>
       /\ lk_last.received = <<>>
       /\ ~lk_child.parent
       /\ lk_parent = lk_last.parent
       /\ lk_child.array = lk_last.child
       /\ lk_last.linked => lk_child.array = lk_last.parent
  /\ (LkMutator /\ ~lk_last.linked /\ lk_last.on = "parent") =>
       /\ LkContents = lk_last.child
       /\ lk_last.emitted = <<>>
       /\ lk_last.received = <<>>
  /\ (LkMutator /\ ~lk_last.linked /\ lk_last.on = "child") =>
       /\ lk_parent = lk_last.parent
       /\ lk_last.parentEmitted = <<>>

C35_Witness ==
  /\ lk_last.op = "unlink"
  /\ lk_last.linked
  /\ ~lk_child.parent
  /\ lk_child.array = <<"a", "b">>
  /\ lk_parent = <<"a", "b">>

\* C38: dispose() of a child that is linked to a parent leaves the parent's
\* contents as they were and emits nothing on the parent.
C38_DisposeSparesParent ==
  (lk_last.op = "dispose" /\ lk_last.linked) =>
    /\ lk_parent = lk_last.parent
    /\ lk_last.parentEmitted = <<>>

\* C33: dispose() of an ObservableVector or of the signal-only
\* ObservableString hands no `changed` event to any listener and leaves
\* isDisposed true, and the listeners connected before it are never handed
\* an event afterwards.
C33_DisposeIsSilent ==
  /\ lk_last.op = "dispose" => lk_last.received = <<>> /\ lk_child.isDisposed
  /\ lk_child.isDisposed => lk_last.received = <<>>
  /\ st_last.op = "dispose" => st_last.received = 0 /\ st_str.isDisposed
  /\ st_str.isDisposed /\ st_last.disposed => st_last.received = 0

\* the constructor that ran last belongs to a call whose kind (String or
\* Vector) an earlier call of this handler already constructed
HSecondOfKind ==
  /\ h_last.op = "ctor"
  /\ Len(h_done) >= 2
  /\ \E i \in 1..Len(h_done) - 1 :
       h_calls[h_done[i]].kind = h_calls[h_done[Len(h_done)]].kind

\* C39: a second container of the same kind obtained from one handler is a
\* container of its own: it starts with the initial value of its own call,
\* and constructing it leaves the contents of the first as they were.
C39_CreatedAreIndependent ==
  HSecondOfKind =>
    /\ h_last.key = "collabStr" => GRStringText(h_root, h_last.key) = h_last.init
    /\ h_last.key = "collabVec" => GRVectorItems(h_root, h_last.key) = h_last.init
    /\ h_last.existed => h_root[h_last.key].val = h_last.before

\* C40: constructing a second RacerMap on the model and path of the first
\* leaves what the path holds in place: the new map reads every value the
\* first one stored.
C40_ConstructorKeepsContent ==
  rm_last.op = "constructor" =>
    \A k \in RmKeys : RmGet(rm_data, k) = RmGet(rm_last.prev, k)

=============================================================================
